---- MODULE Spec2Model ----
(***************************************************************************)
(* zmcdn: the director client (GameMasterQwen.generateSceneDirection), the *)
(* image client (IllustratorFLUX.generateImage) and the POST               *)
(* /illustrateMove handler, as state machines over the JavaScript event    *)
(* loop: one action per run of code between two awaits.                    *)
(*                                                                         *)
(* A text is a sequence of characters.  The characters of the reasoning    *)
(* markers and the braces are single characters; a run of characters that  *)
(* contains none of them (a JSON member, a whole JSON literal) is written  *)
(* as one element.                                                         *)
(***************************************************************************)
EXTENDS Integers, Sequences, FiniteSets, TLC

VARIABLES
    lastAnswers,    \* GameMasterQwen.lastAnswers of the one instance
    call,           \* call[c]: the generateSceneDirection call in slot c
    started,        \* number of generateSceneDirection calls started so far
    appended,       \* history: every value pushed on lastAnswers, in order
    sent,           \* the request given to fetch by the step just taken
    apiKey,         \* process.env.GAMEMASTER_API_KEY
    gameMaster,     \* the server's global: 0 for null, n for the n-th instance
                    \* of GameMasterQwen made (lastAnswers is its history)
    req,            \* req[r]: the POST /illustrateMove request in slot r
    files,          \* the files below __dirname: path -> bytes
    dirs,           \* the directories below and around __dirname
    now,            \* the last value Date.now() gave
    resp,           \* the response sent by the step just taken
    strip,          \* the text under the stripping pipeline (SpecStrip)
    illustration,   \* the generateImage call under SpecIllustrator, SpecChatGPT
    snapshot        \* history: snapshot[c]: lastAnswers when the call in slot c
                    \* started (SpecSessions)

directorVars == <<lastAnswers, call, started, appended, sent>>
serverVars == <<apiKey, gameMaster, req, files, dirs, now, resp>>
unitVars == <<strip, illustration, snapshot>>
vars == <<directorVars, serverVars, unitVars>>

(***************************************************************************)
(* Bounds                                                                  *)
(***************************************************************************)
NumCallers == 2     \* concurrent callers of the one instance (SpecHistory)
MaxCalls == 9       \* calls started in one behaviour (SpecHistory)
MaxDirCalls == 2    \* calls started in one behaviour (SpecDirector)
ChunkLen == 16      \* bytes handed over by one reader.read()
MaxPieces == 5      \* pieces of an input text of the stripping pipeline
NumRequests == 2    \* requests the server takes in one behaviour (Spec)
MaxClock == 1       \* the clock values Date.now() gives are 0..MaxClock
NumDeciders == 1    \* requests the server takes in one behaviour (SpecDecision)
MaxImageCalls == 2  \* calls of generateImage in one behaviour (SpecIllustrator)
NumClients == 3         \* requests to the server of server.ts
NumSessions == 2        \* sessions calling the one instance (SpecSessions)
MaxSessionCalls == 3    \* calls started in one behaviour (SpecSessions)

maxAnswerHistory == 8    \* GameMasterQwen.maxAnswerHistory

(***************************************************************************)
(* JavaScript values                                                       *)
(***************************************************************************)
Str(s) == [t |-> "string", s |-> s]
Undefined == [t |-> "undefined"]
Null == [t |-> "null"]
Obj(m) == [t |-> "object", m |-> m]
Arr(a) == [t |-> "array", a |-> a]
NoMembers == [n \in {} |-> Undefined]

\* v.name: undefined when v has no such member
Get(v, name) ==
    IF v.t = "object" /\ name \in DOMAIN v.m THEN v.m[name] ELSE Undefined

\* v[0]
First(v) ==
    IF v.t = "array" /\ Len(v.a) > 0 THEN v.a[1] ELSE Undefined

Truthy(v) ==
    CASE v.t = "undefined" -> FALSE
      [] v.t = "null" -> FALSE
      [] v.t = "boolean" -> v.b
      [] v.t = "string" -> v.s # <<>>
      [] OTHER -> TRUE

\* `${v}`
TemplateString(v) ==
    CASE v.t = "string" -> v.s
      [] v.t = "undefined" -> <<"undefined">>
      [] v.t = "null" -> <<"null">>
      [] OTHER -> <<"[object Object]">>

(***************************************************************************)
(* Texts                                                                   *)
(***************************************************************************)
ThinkOpen == <<"<", "t", "h", "i", "n", "k", ">">>
ThinkClose == <<"<", "/", "t", "h", "i", "n", "k", ">">>

RECURSIVE Concat(_)
Concat(ss) == IF ss = <<>> THEN <<>> ELSE Head(ss) \o Concat(Tail(ss))

MatchAt(text, i, pat) ==
    /\ i + Len(pat) - 1 <= Len(text)
    /\ \A j \in 1..Len(pat) : text[i + j - 1] = pat[j]

\* the first position >= i where pat starts, 0 when there is none
RECURSIVE IndexFrom(_, _, _)
IndexFrom(text, i, pat) ==
    IF i + Len(pat) - 1 > Len(text) THEN 0
    ELSE IF MatchAt(text, i, pat) THEN i
    ELSE IndexFrom(text, i + 1, pat)

Contains(text, pat) == IndexFrom(text, 1, pat) # 0

\* as ReplaceFrom, without the g flag: only the first match is replaced
RECURSIVE ReplaceFirstFrom(_, _)
ReplaceFirstFrom(text, i) ==
    IF i > Len(text) THEN <<>>
    ELSE LET close == IF MatchAt(text, i, ThinkOpen)
                      THEN IndexFrom(text, i + Len(ThinkOpen), ThinkClose)
                      ELSE 0
         IN  IF close # 0
             THEN SubSeq(text, close + Len(ThinkClose), Len(text))
             ELSE <<text[i]>> \o ReplaceFirstFrom(text, i + 1)

\* text.replace(/<think>[\s\S]*?<\/think>/g, ""), scanning from position i
RECURSIVE ReplaceFrom(_, _)
ReplaceFrom(text, i) ==
    IF i > Len(text) THEN <<>>
    ELSE LET close == IF MatchAt(text, i, ThinkOpen)
                      THEN IndexFrom(text, i + Len(ThinkOpen), ThinkClose)
                      ELSE 0
         IN  IF close # 0
             THEN ReplaceFrom(text, close + Len(ThinkClose))
             ELSE <<text[i]>> \o ReplaceFrom(text, i + 1)

RemoveThink(text) == ReplaceFrom(text, 1)


(***************************************************************************)
(* JSON texts.  A member "name":value is one element of a text; inside a   *)
(* JSON string its quotes are escaped.                                     *)
(***************************************************************************)
RECURSIVE Join(_)
Join(text) == IF text = <<>> THEN "" ELSE Head(text) \o Join(Tail(text))

Quote == "\""
EscQuote == "\\\""

StringMember(name, text) ==
    Quote \o name \o Quote \o ":" \o Quote \o Join(text) \o Quote
LiteralMember(name, lit) == Quote \o name \o Quote \o ":" \o lit
EscStringMember(name, text) ==
    EscQuote \o name \o EscQuote \o ":" \o EscQuote \o Join(text) \o EscQuote
EscLiteralMember(name, lit) == EscQuote \o name \o EscQuote \o ":" \o lit

\* the members a director answer is built from: name, value, and how the
\* value is written
DirectiveMembers ==
    { [name |-> "visual_prompt", lit |-> "", v |-> Str(<<"a mailbox">>)],
      [name |-> "style_tags", lit |-> "", v |-> Str(<<"retro">>)],
      [name |-> "reuse_key", lit |-> "", v |-> Str(<<"k1">>)],
      [name |-> "reuse_key", lit |-> "", v |-> Str(<<"k2">>)],
      [name |-> "reuse_key", lit |-> "", v |-> Str(<<"sub", "/", "k1">>)],
      [name |-> "reuse_key", lit |-> "", v |-> Str(<<"..", "/", "k1">>)],
      [name |-> "reuse_key", lit |-> "", v |-> Str(<<"..", "/", "temp_0">>)],
      [name |-> "reuse_key", lit |-> "", v |-> Str(<<>>)],
      [name |-> "repaint", lit |-> "true", v |-> [t |-> "boolean", b |-> TRUE]],
      [name |-> "repaint", lit |-> "false", v |-> [t |-> "boolean", b |-> FALSE]],
      [name |-> "repaint", lit |-> "", v |-> Str(<<"false">>)] }

\* what the game prints on a turn (SpecHistory)
TurnOutputs == { "You go north.", "You go south." }
TurnMembers ==
    { [name |-> "visual_prompt", lit |-> "", v |-> Str(<<o>>)] : o \in TurnOutputs }

Members == DirectiveMembers \cup TurnMembers

MemberText(m) ==
    IF m.v.t = "string" THEN StringMember(m.name, m.v.s)
    ELSE LiteralMember(m.name, m.lit)
EscMemberText(m) ==
    IF m.v.t = "string" THEN EscStringMember(m.name, m.v.s)
    ELSE EscLiteralMember(m.name, m.lit)

MemberTexts == { MemberText(m) : m \in Members }
EscMemberTexts == { EscMemberText(m) : m \in Members }
MemberByText == [x \in MemberTexts |-> CHOOSE m \in Members : MemberText(m) = x]
EscapeByText == [x \in MemberTexts |-> EscMemberText(MemberByText[x])]
UnescapeByText ==
    [x \in EscMemberTexts |->
        MemberText(CHOOSE m \in Members : EscMemberText(m) = x)]

IsMember(x) == x \in MemberTexts
MemberOf(x) == MemberByText[x]

\* a character as it is written inside a JSON string, and back
JsonEscape(x) == IF x \in MemberTexts THEN EscapeByText[x] ELSE x
JsonUnescape(x) == IF x \in EscMemberTexts THEN UnescapeByText[x] ELSE x
\* what may not stand unescaped inside a JSON string
NeedsEscape(x) == IsMember(x) \/ x = Quote

EscapeText(text) == [i \in 1..Len(text) |-> JsonEscape(text[i])]
UnescapeText(text) == [i \in 1..Len(text) |-> JsonUnescape(text[i])]

\* {"choices":[{"message":{ ... }}]}
EnvHead == <<"{", "\"choices\":[", "{", "\"message\":", "{">>
EnvTail == <<"}", "}", "]", "}">>
ContentOpen == "\"content\":\""
Envelope(content) ==
    EnvHead \o <<ContentOpen>> \o EscapeText(content) \o <<Quote>> \o EnvTail

Parsed(v) == [ok |-> TRUE, v |-> v]
SyntaxError == [ok |-> FALSE]

\* the members of "{" m , m , ... "}" as an object, a later member of the
\* same name winning
RECURSIVE MembersObject(_, _)
MembersObject(ms, acc) ==
    IF ms = <<>> THEN acc
    ELSE LET m == MemberOf(Head(ms))
         IN  MembersObject(Tail(ms),
                 [n \in DOMAIN acc \cup {m.name} |->
                     IF n = m.name THEN m.v ELSE acc[n]])

IsMemberList(inner) ==
    /\ Len(inner) % 2 = 1
    /\ \A i \in 1..Len(inner) :
          IF i % 2 = 1 THEN IsMember(inner[i]) ELSE inner[i] = ","

Inner(text, head, tail) == SubSeq(text, head + 1, Len(text) - tail)

\* JSON.parse(text)
JSONparse(text) ==
    LET msg == Inner(text, Len(EnvHead), Len(EnvTail))
        str == Inner(msg, 1, 1)
    IN
    CASE text = <<"null">> -> Parsed(Null)
      [] text = <<"7">> -> Parsed([t |-> "number"])
      [] text = <<"{", "}">> -> Parsed(Obj(NoMembers))
      [] text = <<"{", "\"choices\":[", "]", "}">> ->
            Parsed(Obj([choices |-> Arr(<<>>)]))
      [] text = <<"{", "\"choices\":[", "{", "}", "]", "}">> ->
            Parsed(Obj([choices |-> Arr(<<Obj(NoMembers)>>)]))
      [] /\ Len(text) >= Len(EnvHead) + Len(EnvTail)
         /\ MatchAt(text, 1, EnvHead)
         /\ MatchAt(text, Len(text) - Len(EnvTail) + 1, EnvTail) ->
            LET wrap(message) ==
                    Parsed(Obj([choices |-> Arr(<<Obj([message |-> message])>>)]))
            IN  CASE msg = <<>> -> wrap(Obj(NoMembers))
                  [] msg = <<"\"content\":null">> -> wrap(Obj([content |-> Null]))
                  [] /\ Len(msg) >= 2
                     /\ msg[1] = ContentOpen
                     /\ msg[Len(msg)] = Quote
                     /\ \A i \in 1..Len(str) : ~NeedsEscape(str[i]) ->
                        wrap(Obj([content |-> Str(UnescapeText(str))]))
                  [] OTHER -> SyntaxError
      [] /\ Len(text) >= 3
         /\ text[1] = "{"
         /\ text[Len(text)] = "}"
         /\ IsMemberList(Inner(text, 1, 1)) ->
            Parsed(Obj(MembersObject(
                [i \in 1..((Len(text) - 1) \div 2) |-> text[2 * i]], NoMembers)))
      [] OTHER -> SyntaxError

\* JSON.stringify(sceneState): members that are undefined are left out
SceneFields ==
    <<"zmcdnSessionID", "playerLocation", "lastZMachineInput", "lastZMachineOutput">>

RECURSIVE StringifyFrom(_, _, _)
StringifyFrom(sceneState, i, any) ==
    IF i > Len(SceneFields) THEN <<>>
    ELSE LET v == sceneState[SceneFields[i]]
         IN  IF v.t = "undefined" THEN StringifyFrom(sceneState, i + 1, any)
             ELSE (IF any THEN <<",">> ELSE <<>>)
                  \o <<StringMember(SceneFields[i], v.s)>>
                  \o StringifyFrom(sceneState, i + 1, TRUE)

JSONstringify(sceneState) ==
    <<"{">> \o StringifyFrom(sceneState, 1, FALSE) \o <<"}">>

(***************************************************************************)
(* The response stream: UTF-8 bytes in chunks, decoded by a TextDecoder in *)
(* stream mode (an incomplete character is kept for the next chunk).       *)
(***************************************************************************)
RECURSIVE Encode(_)
Encode(text) ==
    IF text = <<>> THEN <<>>
    ELSE (IF Head(text) = "e'" THEN <<"0xC3", "0xA9">> ELSE <<Head(text)>>)
         \o Encode(Tail(text))

RECURSIVE Chunks(_)
Chunks(bytes) ==
    IF Len(bytes) <= ChunkLen THEN (IF bytes = <<>> THEN <<>> ELSE <<bytes>>)
    ELSE <<SubSeq(bytes, 1, ChunkLen)>>
         \o Chunks(SubSeq(bytes, ChunkLen + 1, Len(bytes)))

\* decoder.decode(value, { stream: true }) with `pending` kept from before
RECURSIVE Decode(_, _)
Decode(pending, bytes) ==
    IF bytes = <<>> THEN [out |-> <<>>, pending |-> pending]
    ELSE LET b == Head(bytes)
             \* what the decoder gives out for b, and what it keeps
             step == IF pending # <<>>
                     THEN IF b = "0xA9" THEN <<<<"e'">>, <<>>>>
                          ELSE IF b = "0xC3" THEN <<<<"\\uFFFD">>, <<"0xC3">>>>
                          ELSE <<<<"\\uFFFD", b>>, <<>>>>
                     ELSE IF b = "0xC3" THEN <<<<>>, <<"0xC3">>>>
                          ELSE IF b = "0xA9" THEN <<<<"\\uFFFD">>, <<>>>>
                          ELSE <<<<b>>, <<>>>>
             rest == Decode(step[2], Tail(bytes))
         IN  [rest EXCEPT !.out = step[1] \o @]

(***************************************************************************)
(* The text backend, as the director sees it.                              *)
(***************************************************************************)
SceneState(session, location, input, output) ==
    [zmcdnSessionID |-> session, playerLocation |-> location,
     lastZMachineInput |-> input, lastZMachineOutput |-> output]

Object(members) == <<"{">> \o members \o <<"}">>

FullDirective ==
    Object(<<StringMember("visual_prompt", <<"a mailbox">>), ",",
             StringMember("reuse_key", <<"k1">>), ",",
             LiteralMember("repaint", "true")>>)

\* a fetch that settles: a response, or a rejection.  The stream of a
\* response ends after its chunks, by done or (fails) by an error, or
\* (stalls) it stays open with nothing more to read
Response(ok, status, text, fails) ==
    [kind |-> "response", ok |-> ok, status |-> status, hasBody |-> TRUE,
     chunks |-> Chunks(Encode(text)), fails |-> fails, stalls |-> FALSE]
NoBodyResponse ==
    [kind |-> "response", ok |-> TRUE, status |-> 200, hasBody |-> FALSE,
     chunks |-> <<>>, fails |-> FALSE, stalls |-> FALSE]
StalledResponse(text) == [Response(TRUE, 200, text, FALSE) EXCEPT !.stalls = TRUE]
Rejection == [kind |-> "rejection"]

\* bodies of a 200 answer
DirectorBodies ==
    { <<"not valid json ", "{">>,
      ThinkOpen \o <<"x">> \o ThinkClose \o <<"o", "o", "p", "s">>,
      <<"{", "}">>,
      <<"null">>,
      <<"{", "\"choices\":[", "]", "}">>,
      <<"{", "\"choices\":[", "{", "}", "]", "}">>,
      EnvHead \o EnvTail,
      EnvHead \o <<"\"content\":null">> \o EnvTail,
      Envelope(FullDirective),
      Envelope(ThinkOpen \o <<"r", "e'", "a", "s", "o", "n">> \o ThinkClose
               \o FullDirective),
      \* a character whose two bytes come in two chunks
      Envelope(ThinkOpen \o <<"t", "r", "e'", "s">> \o ThinkClose
               \o FullDirective),
      Envelope(<<"Here is some text before ">> \o FullDirective
               \o <<" and after">>),
      Envelope(<<"no json here">>) }

DirectorResponses ==
    { Response(TRUE, 200, b, FALSE) : b \in DirectorBodies }
    \cup { Response(TRUE, 200, Envelope(FullDirective), TRUE),
           Response(FALSE, 500, <<"oops">>, FALSE),
           Response(FALSE, 429, <<>>, FALSE),
           NoBodyResponse,
           Rejection }

\* the answer to the scene of a game turn describes what the game printed
TurnResponse(sceneState) ==
    Response(TRUE, 200,
        Envelope(Object(<<StringMember("visual_prompt",
                                       sceneState.lastZMachineOutput.s)>>)),
        FALSE)

\* a directive of the scene with the mailbox
Directive(reuse_key, repaint) ==
    Object(<<StringMember("visual_prompt", <<"a mailbox">>), ",",
             StringMember("reuse_key", reuse_key), ",",
             LiteralMember("repaint", repaint)>>)

\* the answers to a request of the server
ServerResponses ==
    { Response(TRUE, 200, Envelope(d), FALSE) :
        d \in { Directive(<<"k1">>, "true"),
                Directive(<<"k1">>, "false"),
                Directive(<<"sub", "/", "k1">>, "true"),
                <<"no json here">> } }
    \cup { Response(FALSE, 500, <<"oops">>, FALSE) }

\* a directive of the members given, in the order given
DirectiveOf(members) ==
    Object([i \in 1..(2 * Len(members) - 1) |->
               IF i % 2 = 1 THEN members[(i + 1) \div 2] ELSE ","])

VisualPrompt == StringMember("visual_prompt", <<"a mailbox">>)
StyleTags == StringMember("style_tags", <<"retro">>)
ReuseKey == StringMember("reuse_key", <<"k1">>)

\* what the director may answer on the scene with the leaflet: directives
\* with every field, with fields absent, empty or of another type, JSON
\* that is no object, and text that is no JSON
DecisionDirectives ==
    { DirectiveOf(<<VisualPrompt, ReuseKey, StyleTags, LiteralMember("repaint", "true")>>),
      DirectiveOf(<<VisualPrompt, ReuseKey, StyleTags, LiteralMember("repaint", "false")>>),
      DirectiveOf(<<VisualPrompt>>),
      DirectiveOf(<<VisualPrompt, ReuseKey>>),
      DirectiveOf(<<VisualPrompt, LiteralMember("repaint", "true")>>),
      DirectiveOf(<<VisualPrompt, LiteralMember("repaint", "false")>>),
      DirectiveOf(<<ReuseKey, LiteralMember("repaint", "true")>>),
      DirectiveOf(<<VisualPrompt, StringMember("reuse_key", <<>>),
                    LiteralMember("repaint", "true")>>),
      DirectiveOf(<<VisualPrompt, ReuseKey, StringMember("repaint", <<"false">>)>>),
      DirectiveOf(<<VisualPrompt, StringMember("reuse_key", <<"..", "/", "k1">>),
                    LiteralMember("repaint", "true")>>),
      <<"{", "}">>,
      <<"null">>,
      <<"7">>,
      <<"no json here">> }

DecisionResponses ==
    { Response(TRUE, 200, Envelope(d), FALSE) : d \in DecisionDirectives }

\* the answers on the scene with the grating: a directive, a directive
\* whose stream stays open after its last chunk, a stream that stays open
\* with nothing sent, and a refusal
WaitingResponses ==
    { Response(TRUE, 200, Envelope(Directive(<<"k1">>, "true")), FALSE),
      StalledResponse(Envelope(Directive(<<"k1">>, "true"))),
      StalledResponse(<<>>),
      Response(FALSE, 500, <<"oops">>, FALSE) }

\* the answers on the scene with the lamp: directives of the key k1, and
\* directives whose key, joined to the directory of the game, names a file
\* of the directory cache itself
EntryResponses ==
    { Response(TRUE, 200, Envelope(Directive(key, repaint)), FALSE) :
        key \in { <<"k1">>, <<"..", "/", "temp_0">> },
        repaint \in { "true", "false" } }

TextBackend(sceneState) ==
    IF sceneState.lastZMachineOutput.t # "string" THEN DirectorResponses
    ELSE IF sceneState.lastZMachineOutput.s = <<"grating">> THEN WaitingResponses
    ELSE IF sceneState.lastZMachineOutput.s = <<"lamp">> THEN EntryResponses
    ELSE IF sceneState.lastZMachineOutput.s = <<"leaflet">> THEN DecisionResponses
    ELSE IF Join(sceneState.lastZMachineOutput.s) \in TurnOutputs
         THEN {TurnResponse(sceneState)}
    ELSE IF sceneState.lastZMachineOutput.s = <<"mailbox">> THEN ServerResponses
    ELSE DirectorResponses

(***************************************************************************)
(* GameMasterQwen.generateSceneDirection                                   *)
(***************************************************************************)
NoStrip == [pc |-> "none", pieces |-> <<>>, once |-> <<>>, twice |-> <<>>]
NoSent == [by |-> 0, answers |-> <<>>, messages |-> <<>>]

gameMasterPrompt == <<"/no_think You are the Art Director ...">>

Idle ==
    [pc |-> "idle", sceneState |-> Undefined, chunks |-> <<>>, fails |-> FALSE,
     stalls |-> FALSE, pending |-> <<>>, savedOutput |-> <<>>, result |-> Undefined,
     error |-> Undefined,
     fetches |-> 0,          \* history: requests sent by this call
     settled |-> [kind |-> "none"]]  \* history: how its fetch settled

\* as HistoryTurns, the newest answer first
RECURSIVE HistoryTurnsNewestFirst(_, _)
HistoryTurnsNewestFirst(answers, idx) ==
    IF idx > Len(answers) THEN <<>>
    ELSE HistoryTurnsNewestFirst(answers, idx + 1)
         \o <<[role |-> "user", content |-> TemplateString(answers[idx])]>>

\* lines 39-53: the system turn, one turn per stored answer, the scene
RECURSIVE HistoryTurns(_, _)
HistoryTurns(answers, idx) ==
    IF idx > Len(answers) THEN <<>>
    ELSE <<[role |-> "user", content |-> TemplateString(answers[idx])]>>
         \o HistoryTurns(answers, idx + 1)

Messages(answers, sceneState) ==
    <<[role |-> "system", content |-> gameMasterPrompt]>>
    \o HistoryTurns(answers, 1)
    \o <<[role |-> "user", content |-> JSONstringify(sceneState)]>>

\* lines 90-108: choices[0].message.content without its reasoning, or the
\* saved output
FilteredContent(savedOutput) ==
    LET p == JSONparse(savedOutput)
        message == Get(First(Get(p.v, "choices")), "message")
        content == Get(message, "content")
    IN  IF ~p.ok THEN Str(savedOutput)
        ELSE IF p.v.t = "null" THEN Str(savedOutput)
        ELSE IF /\ Truthy(Get(p.v, "choices"))
                /\ Truthy(First(Get(p.v, "choices")))
                /\ Truthy(message)
             THEN IF content.t = "string" THEN Str(RemoveThink(content.s))
                  ELSE content
             ELSE Str(savedOutput)

\* array.splice(start, deleteCount), start counted from 0
Splice(array, start, deleteCount) ==
    SubSeq(array, 1, start) \o SubSeq(array, start + deleteCount + 1, Len(array))

\* as StoreAnswer, nothing taken out
StoreAnswerKeepAll(answers, answer) == Append(answers, answer)

\* as StoreAnswer, the newest answers dropped instead of the oldest
StoreAnswerDropNewest(answers, answer) ==
    LET pushed == Append(answers, answer)
    IN  IF Len(pushed) > maxAnswerHistory
        THEN Splice(pushed, maxAnswerHistory, Len(pushed) - maxAnswerHistory)
        ELSE pushed

\* lines 111-115
StoreAnswer(answers, answer) ==
    LET pushed == Append(answers, answer)
    IN  IF Len(pushed) > maxAnswerHistory
        THEN Splice(pushed, 0, Len(pushed) - maxAnswerHistory)
        ELSE pushed

\* as Return, an answer that is no JSON not stored
ReturnValidated(calls, c, savedOutput) ==
    LET filteredContent == FilteredContent(savedOutput)
        valid == JSONparse(TemplateString(filteredContent)).ok
    IN  /\ lastAnswers' = IF valid THEN StoreAnswer(lastAnswers, filteredContent)
                          ELSE lastAnswers
        /\ appended' = IF valid THEN Append(appended, filteredContent) ELSE appended
        /\ call' = [calls EXCEPT ![c].pc = "returned",
                                ![c].chunks = <<>>,
                                ![c].pending = <<>>,
                                ![c].savedOutput = savedOutput,
                                ![c].result = filteredContent]

\* as Return, the answer put after the answers the call started with
ReturnOverSnapshot(calls, c, savedOutput) ==
    LET filteredContent == FilteredContent(savedOutput)
    IN  /\ lastAnswers' = StoreAnswer(snapshot[c], filteredContent)
        /\ appended' = Append(appended, filteredContent)
        /\ call' = [calls EXCEPT ![c].pc = "returned",
                                ![c].chunks = <<>>,
                                ![c].pending = <<>>,
                                ![c].savedOutput = savedOutput,
                                ![c].result = filteredContent]

\* lines 90-117, run without a pause once the output is complete
Return(calls, c, savedOutput) ==
    LET filteredContent == FilteredContent(savedOutput)
    IN  /\ lastAnswers' = StoreAnswer(lastAnswers, filteredContent)
        /\ appended' = Append(appended, filteredContent)
        /\ call' = [calls EXCEPT ![c].pc = "returned",
                                ![c].chunks = <<>>,
                                ![c].pending = <<>>,
                                ![c].savedOutput = savedOutput,
                                ![c].result = filteredContent]

\* as Throw, what was read so far stored as an answer
ThrowStoring(calls, c, error) ==
    /\ call' = [calls EXCEPT ![c].pc = "threw",
                            ![c].chunks = <<>>,
                            ![c].pending = <<>>,
                            ![c].error = error]
    /\ lastAnswers' = StoreAnswer(lastAnswers, Str(calls[c].savedOutput))
    /\ appended' = Append(appended, Str(calls[c].savedOutput))

\* lines 73-75, and a rejection of fetch or of reader.read(): the call ends
\* with an error
Throw(calls, c, error) ==
    /\ call' = [calls EXCEPT ![c].pc = "threw",
                            ![c].chunks = <<>>,
                            ![c].pending = <<>>,
                            ![c].error = error]
    /\ UNCHANGED <<lastAnswers, appended>>

\* lines 24-71: the messages are built and the request is sent
Call(c, sceneState) ==
    /\ call[c].pc \in {"idle", "returned", "threw"}
    /\ call' = [call EXCEPT ![c] = [Idle EXCEPT !.pc = "fetch",
                                                !.sceneState = sceneState,
                                                !.fetches = 1]]
    /\ sent' = [by |-> c, answers |-> lastAnswers,
                messages |-> Messages(lastAnswers, sceneState)]
    /\ started' = started + 1
    /\ UNCHANGED <<lastAnswers, appended>>

\* as FetchSettles, a failed request sent once more before giving up
FetchSettlesRetrying(c) ==
    /\ call[c].pc = "fetch"
    /\ \E r \in TextBackend(call[c].sceneState) :
          LET seen == [call EXCEPT ![c].settled =
                          IF r.kind = "rejection" THEN r
                          ELSE [kind |-> "response", ok |-> r.ok,
                                status |-> r.status]]
              failed == r.kind = "rejection" \/ ~r.ok
          IN  IF failed /\ call[c].fetches < 2
              THEN /\ call' = [seen EXCEPT ![c].fetches = call[c].fetches + 1]
                   /\ UNCHANGED <<lastAnswers, appended>>
              ELSE IF r.kind = "rejection"
                   THEN Throw(seen, c, [kind |-> "network"])
              ELSE IF ~r.ok
                   THEN Throw(seen, c, [kind |-> "status", status |-> r.status])
              ELSE IF ~r.hasBody THEN Return(seen, c, <<>>)
              ELSE /\ call' = [seen EXCEPT ![c].pc = "read",
                                           ![c].chunks = r.chunks,
                                           ![c].fails = r.fails,
                                           ![c].stalls = r.stalls]
                   /\ UNCHANGED <<lastAnswers, appended>>
    /\ sent' = NoSent
    /\ UNCHANGED started

\* lines 58-81: the fetch settles
FetchSettles(c) ==
    /\ call[c].pc = "fetch"
    /\ \E r \in TextBackend(call[c].sceneState) :
          LET seen == [call EXCEPT ![c].settled =
                          IF r.kind = "rejection" THEN r
                          ELSE [kind |-> "response", ok |-> r.ok,
                                status |-> r.status]]
          IN  IF r.kind = "rejection" THEN Throw(seen, c, [kind |-> "network"])
              ELSE IF ~r.ok
                   THEN Throw(seen, c, [kind |-> "status", status |-> r.status])
              ELSE IF ~r.hasBody THEN Return(seen, c, <<>>)
              ELSE /\ call' = [seen EXCEPT ![c].pc = "read",
                                           ![c].chunks = r.chunks,
                                           ![c].fails = r.fails,
                                           ![c].stalls = r.stalls]
                   /\ UNCHANGED <<lastAnswers, appended>>
    /\ sent' = NoSent
    /\ UNCHANGED started

\* as ReadSettles, the output taken for complete with the first chunk
ReadSettlesOnce(c) ==
    /\ call[c].pc = "read"
    /\ ~(call[c].chunks = <<>> /\ call[c].stalls)
    /\ IF call[c].chunks # <<>>
       THEN LET d == Decode(call[c].pending, Head(call[c].chunks))
            IN  Return(call, c, call[c].savedOutput \o d.out)
       ELSE IF call[c].fails THEN Throw(call, c, [kind |-> "stream"])
       ELSE Return(call, c, call[c].savedOutput)
    /\ sent' = NoSent
    /\ UNCHANGED started

\* lines 82-88: one reader.read() settles; none does on a stream that has
\* stalled
ReadSettles(c) ==
    /\ call[c].pc = "read"
    /\ ~(call[c].chunks = <<>> /\ call[c].stalls)
    /\ IF call[c].chunks # <<>>
       THEN LET d == Decode(call[c].pending, Head(call[c].chunks))
            IN  /\ call' = [call EXCEPT
                       ![c].chunks = Tail(call[c].chunks),
                       ![c].pending = d.pending,
                       ![c].savedOutput = call[c].savedOutput \o d.out]
                /\ UNCHANGED <<lastAnswers, appended>>
       ELSE IF call[c].fails THEN Throw(call, c, [kind |-> "stream"])
       ELSE Return(call, c, call[c].savedOutput)
    /\ sent' = NoSent
    /\ UNCHANGED started

(***************************************************************************)
(* The file system below __dirname.  A path is the sequence of its         *)
(* components, counted from __dirname.                                     *)
(***************************************************************************)
\* the components of a text between its "/"
RECURSIVE SplitFrom(_, _, _)
SplitFrom(text, i, component) ==
    IF i > Len(text) THEN <<component>>
    ELSE IF text[i] = "/"
         THEN <<component>> \o SplitFrom(text, i + 1, "")
         ELSE SplitFrom(text, i + 1, component \o text[i])

Split(text) == SplitFrom(text, 1, "")

\* path.normalize: "" and "." dropped, ".." taking back the component before
RECURSIVE Normalize(_, _)
Normalize(components, done) ==
    IF components = <<>> THEN done
    ELSE LET c == Head(components)
             rest == Tail(components)
         IN  IF c = "" \/ c = "." THEN Normalize(rest, done)
             ELSE IF c = ".." /\ done # <<>> /\ done[Len(done)] # ".."
                  THEN Normalize(rest, SubSeq(done, 1, Len(done) - 1))
             ELSE Normalize(rest, Append(done, c))

\* path.join(__dirname, ...parts)
PathJoin(parts) == Normalize(Concat([i \in 1..Len(parts) |-> Split(parts[i])]), <<>>)

DirName(path) == SubSeq(path, 1, Len(path) - 1)
Prefixes(path) == { SubSeq(path, 1, n) : n \in 0..Len(path) }

\* as ExistsSync, every path found
ExistsSyncAlways(path) == TRUE

\* as ExistsSync, no path found
ExistsSyncNever(path) == FALSE

ExistsSync(path) == path \in DOMAIN files \/ path \in dirs

\* fs.mkdirSync(dir, { recursive: true }): the directories made, or an error
MkdirFails(dir) == \E q \in Prefixes(dir) : q \in DOMAIN files
Mkdir(ds, dir) == ds \cup Prefixes(dir)

\* as Write, the bytes put after those the file has
WriteAppending(fs, path, bytes) ==
    [q \in DOMAIN fs \cup {path} |->
        IF q # path THEN fs[q]
        ELSE IF path \in DOMAIN fs THEN fs[path] \o bytes ELSE bytes]

\* fs.writeFileSync(path, bytes) with the directories ds
WriteFails(ds, path) == DirName(path) \notin ds \/ path \in ds
Write(fs, path, bytes) ==
    [q \in DOMAIN fs \cup {path} |-> IF q = path THEN bytes ELSE fs[q]]

\* fs.unlinkSync(path)
Unlink(fs, path) == [q \in DOMAIN fs \ {path} |-> fs[q]]

NoFiles == [q \in {} |-> <<>>]

(***************************************************************************)
(* IllustratorFLUX.generateImage                                           *)
(***************************************************************************)
\* as Base64Group, a part of the picture lost
Base64GroupCut ==
    [g \in {"aW1n", "MQ==", "Mg==", "Mw==", "NA==", "NQ=="} |->
        IF g = "aW1n" THEN <<"i">> ELSE <<>>]

\* the base64 groups of the payloads, and the bytes each stands for
Base64Group ==
    [g \in {"aW1n", "MQ==", "Mg==", "Mw==", "NA==", "NQ=="} |->
        CASE g = "aW1n" -> <<"i", "m", "g">>
          [] g = "MQ==" -> <<"1">>
          [] g = "Mg==" -> <<"2">>
          [] g = "Mw==" -> <<"3">>
          [] g = "NA==" -> <<"4">>
          [] g = "NQ==" -> <<"5">>]

\* as BufferFromBase64, the groups taken for the bytes
BufferFromBase64Groups(b64) == b64

\* Buffer.from(b64, "base64"): what is no base64 group is passed over
RECURSIVE BufferFromBase64(_)
BufferFromBase64(b64) ==
    IF b64 = <<>> THEN <<>>
    ELSE (IF Head(b64) \in DOMAIN Base64Group THEN Base64Group[Head(b64)] ELSE <<>>)
         \o BufferFromBase64(Tail(b64))

DigitGroup == <<"MQ==", "Mg==", "Mw==", "NA==", "NQ==">>

\* the image backend draws a new picture for every request
Payload(r) == Str(<<"aW1n", DigitGroup[r]>>)

ImageResult(data) == [kind |-> "response", ok |-> TRUE, status |-> 200, json |-> data]

ImageBackend(r) ==
    { ImageResult(Obj([data |-> Arr(<<Obj([b64_json |-> Payload(r)])>>)])),
      ImageResult(Obj([data |-> Arr(<<Obj([b64_json |-> Str(<<>>)])>>)])),
      ImageResult(Obj([data |-> Arr(<<Obj([url |-> Str(<<"https://img">>)])>>)])),
      ImageResult(Obj([data |-> Arr(<<>>)])),
      ImageResult(Obj(NoMembers)),
      [kind |-> "response", ok |-> FALSE, status |-> 500, json |-> Undefined],
      Rejection }

\* as GenerateImage, the status of the response not looked at
GenerateImageAnyStatus(r) ==
    LET first == First(Get(r.json, "data"))
    IN  IF r.kind = "rejection" THEN [ok |-> FALSE, error |-> [kind |-> "network"]]
        ELSE IF \/ ~Truthy(Get(r.json, "data"))
                \/ ~Truthy(first)
                \/ ~Truthy(Get(first, "b64_json"))
             THEN [ok |-> FALSE, error |-> [kind |-> "no image data"]]
        ELSE [ok |-> TRUE, b64 |-> Get(first, "b64_json")]

\* lines 203-220 of generateImage: the payload, or an error
GenerateImage(r) ==
    LET first == First(Get(r.json, "data"))
    IN  IF r.kind = "rejection" THEN [ok |-> FALSE, error |-> [kind |-> "network"]]
        ELSE IF ~r.ok
             THEN [ok |-> FALSE, error |-> [kind |-> "status", status |-> r.status]]
        ELSE IF \/ ~Truthy(Get(r.json, "data"))
                \/ ~Truthy(first)
                \/ ~Truthy(Get(first, "b64_json"))
             THEN [ok |-> FALSE, error |-> [kind |-> "no image data"]]
        ELSE [ok |-> TRUE, b64 |-> Get(first, "b64_json")]

NoIllustration ==
    [pc |-> "idle", request |-> Undefined, answer |-> Undefined,
     result |-> Undefined, error |-> Undefined, calls |-> 0]

\* lines 182-201 of generateImage: the request is sent
GenerateImageCall(prompt, size) ==
    /\ illustration.pc \in {"idle", "returned", "threw"}
    /\ illustration.calls < MaxImageCalls
    /\ illustration' =
          [NoIllustration EXCEPT
              !.pc = "fetch",
              !.calls = illustration.calls + 1,
              !.request = Obj([prompt |-> prompt, size |-> size,
                               model |-> Str(<<"black-forest-labs/FLUX-1-schnell">>),
                               n |-> [t |-> "number"]])]

\* lines 186-201: the fetch settles
GenerateImageFetched(answer) ==
    /\ illustration.pc = "fetch"
    /\ illustration' =
          IF answer.kind = "rejection"
          THEN [illustration EXCEPT !.pc = "threw", !.answer = answer,
                                    !.error = GenerateImage(answer).error]
          ELSE [illustration EXCEPT !.pc = "body", !.answer = answer]

\* lines 203-220: the body is there, as text or as JSON
GenerateImageSettled ==
    /\ illustration.pc = "body"
    /\ LET result == GenerateImage(illustration.answer)
       IN  illustration' =
              IF result.ok
              THEN [illustration EXCEPT !.pc = "returned", !.result = result.b64]
              ELSE [illustration EXCEPT !.pc = "threw", !.error = result.error]

(***************************************************************************)
(* IllustratorChatGPT.generateImage                                        *)
(***************************************************************************)
\* client.images.generate settles: the object of the answer, or a rejection
Resolved(value) == [kind |-> "resolved", value |-> value]

Url == Str(<<"https://img">>)

\* the file a save path names, from the directory of the process
SavePath(saveToFile) == PathJoin(<<saveToFile.s>>)

DataUri(b64_json) == <<"data:image/png;base64,">> \o b64_json.s
SavedMessage(saveToFile) == <<"Saved image to ">> \o saveToFile.s

\* as ImageOutcome, the url looked at before the base64 data
ImageOutcomeUrlFirst(answer, saveToFile, fs, ds) ==
    LET imageData == First(Get(answer.value, "data"))
        b64_json == Get(imageData, "b64_json")
        url == Get(imageData, "url")
        failed(message) == [ok |-> FALSE, error |-> message, files |-> fs]
    IN  IF answer.kind = "rejection" THEN failed("api")
        ELSE IF ~Truthy(imageData) THEN failed("No image data returned")
        ELSE IF Truthy(url) THEN [ok |-> TRUE, value |-> url, files |-> fs]
        ELSE IF Truthy(b64_json)
        THEN IF Truthy(saveToFile)
             THEN IF WriteFails(ds, SavePath(saveToFile)) THEN failed("write")
                  ELSE [ok |-> TRUE, value |-> Str(SavedMessage(saveToFile)),
                        files |-> Write(fs, SavePath(saveToFile),
                                        BufferFromBase64(b64_json.s))]
             ELSE [ok |-> TRUE, value |-> Str(DataUri(b64_json)), files |-> fs]
        ELSE failed("No image URL or data returned")

\* lines 39-61 of generateImage: what is returned or thrown, and the files
\* after it
ImageOutcome(answer, saveToFile, fs, ds) ==
    LET imageData == First(Get(answer.value, "data"))
        b64_json == Get(imageData, "b64_json")
        url == Get(imageData, "url")
        failed(message) == [ok |-> FALSE, error |-> message, files |-> fs]
    IN  IF answer.kind = "rejection" THEN failed("api")
        ELSE IF ~Truthy(imageData) THEN failed("No image data returned")
        ELSE IF Truthy(b64_json)
        THEN IF Truthy(saveToFile)
             THEN IF WriteFails(ds, SavePath(saveToFile)) THEN failed("write")
                  ELSE [ok |-> TRUE, value |-> Str(SavedMessage(saveToFile)),
                        files |-> Write(fs, SavePath(saveToFile),
                                        BufferFromBase64(b64_json.s))]
             ELSE [ok |-> TRUE, value |-> Str(DataUri(b64_json)), files |-> fs]
        ELSE IF Truthy(url) THEN [ok |-> TRUE, value |-> url, files |-> fs]
        ELSE failed("No image URL or data returned")

NoImageCall ==
    [pc |-> "idle", request |-> Undefined, saveToFile |-> Undefined,
     answer |-> Undefined, result |-> Undefined, error |-> Undefined,
     calls |-> 0,
     before |-> NoFiles]     \* history: the files when the call was made

\* lines 28-37: the request is sent, the size "1024x1024" unless given
ImageCall(prompt, size, saveToFile) ==
    /\ illustration.pc \in {"idle", "returned", "threw"}
    /\ illustration.calls < MaxImageCalls
    /\ illustration' =
          [NoImageCall EXCEPT
              !.pc = "generate",
              !.calls = illustration.calls + 1,
              !.saveToFile = saveToFile,
              !.before = files,
              !.request = Obj([model |-> Str(<<"gpt-image-1">>),
                               prompt |-> prompt,
                               size |-> IF size = Undefined
                                        THEN Str(<<"1024x1024">>) ELSE size])]
    /\ UNCHANGED files

\* lines 33-61: client.images.generate settles
ImageSettled(answer) ==
    /\ illustration.pc = "generate"
    /\ LET outcome == ImageOutcome(answer, illustration.saveToFile, files, dirs)
       IN  /\ files' = outcome.files
           /\ illustration' =
                 IF outcome.ok
                 THEN [illustration EXCEPT !.pc = "returned", !.answer = answer,
                                           !.result = outcome.value]
                 ELSE [illustration EXCEPT !.pc = "threw", !.answer = answer,
                                           !.error = Str(<<outcome.error>>)]

(***************************************************************************)
(* POST /illustrateMove                                                    *)
(***************************************************************************)
RequestBody(session, output, game, format) ==
    [zmcdnSessionID |-> session, lastZMachineOutput |-> output,
     lastZMachineInput |-> Str(<<"open mailbox">>),
     playerLocation |-> Str(<<"West of House">>),
     gameIdentifier |-> game, illustrationFormat |-> format]

\* /^[a-zA-Z0-9.]+$/ on an identifier written as runs of letters and
\* digits, dots, and other characters
AlphanumericRuns == { "g1", "g2", "s1", "59", "860730", "temp" }

\* as MatchesIdentifier, every identifier that is a string let through
MatchesIdentifierAny(v) == v.t = "string"

MatchesIdentifier(v) ==
    /\ v.t = "string"
    /\ v.s # <<>>
    /\ \A i \in 1..Len(v.s) : v.s[i] \in AlphanumericRuns \cup {".", ".."}

NoRequest ==
    [pc |-> "idle", zmcdnSessionID |-> Undefined,
     gameIdentifier |-> Undefined, illustrationFormat |-> Undefined,
     filteredContent |-> Undefined, imageBuffer |-> <<>>, tempImagePath |-> <<>>,
     img |-> Undefined,
     imageCalls |-> 0,        \* history: calls of the image backend
     prompt |-> Undefined,    \* history: the prompt of the last such call
     generated |-> Undefined, \* history: the bytes it generated
     cached |-> Undefined,    \* history: the bytes read from the cache
     wrote |-> <<>>,          \* history: the cache path written
     failure |-> "none"]      \* history: what threw after the image was written
\* as Finished, the handler free to run once more
FinishedNot == NoRequest

Finished == [NoRequest EXCEPT !.pc = "done"]
NoResponse == [to |-> 0]

\* as JsonError, sent with the status of success
JsonErrorAsSuccess(status, error) == [status |-> 200, type |-> "json", error |-> error]

JsonError(status, error) == [status |-> status, type |-> "json", error |-> error]

\* res.status(...).json(...) or res.send(...): the request is over
Respond(r, requests, body) ==
    /\ resp' = [to |-> r, body |-> body, request |-> requests[r]]
    /\ req' = [requests EXCEPT ![r] = Finished]

\* lines 164-178: the image is sent as it is, or written to a temporary
\* file and given to imageToSixel
Deliver(r, requests, fs, ds, imageBuffer) ==
    LET request == [requests[r] EXCEPT !.imageBuffer = imageBuffer]
    IN  IF request.illustrationFormat = Str(<<"png">>)
        THEN /\ Respond(r, [requests EXCEPT ![r] = request],
                        [status |-> 200, type |-> "image/png", data |-> imageBuffer])
             /\ files' = fs
             /\ dirs' = ds
             /\ now' = now
        ELSE \E t \in {now, now + 1} :
                LET tempImagePath ==
                        PathJoin(<<<<"cache">>, <<"temp_" \o ToString(t) \o ".png">>>>)
                    made == Mkdir(ds, DirName(tempImagePath))
                IN  /\ t <= MaxClock
                    /\ now' = t
                    /\ IF MkdirFails(DirName(tempImagePath))
                          \/ WriteFails(made, tempImagePath)
                       THEN /\ Respond(r, [requests EXCEPT ![r] = request],
                                       JsonError(500, "failed to process request"))
                            /\ files' = fs
                            /\ dirs' = ds
                       ELSE /\ req' = [requests EXCEPT ![r] =
                                          [request EXCEPT !.pc = "loading",
                                                          !.tempImagePath = tempImagePath]]
                            /\ resp' = NoResponse
                            /\ files' = Write(fs, tempImagePath, imageBuffer)
                            /\ dirs' = made

\* as GameMasterOrNew, an instance made for every request
GameMasterNew(instance) == instance + 1

\* lines 116-119: the instance is made unless there is one
GameMasterOrNew(instance) == IF instance = 0 THEN 1 ELSE instance

\* lines 83-122: the request is checked, the director made and called
IllustrateMove(r, body) ==
    /\ req[r].pc = "idle"
    /\ \A q \in 1..(r - 1) : req[q].pc # "idle"
    /\ UNCHANGED <<apiKey, files, dirs, now>>
    /\ IF \/ ~Truthy(body.zmcdnSessionID)
          \/ ~Truthy(body.lastZMachineOutput)
          \/ ~Truthy(body.gameIdentifier)
       THEN /\ Respond(r, req, JsonError(400, "missing required JSON parameters"))
            /\ UNCHANGED <<directorVars, gameMaster>>
       ELSE IF ~MatchesIdentifier(body.gameIdentifier)
       THEN /\ Respond(r, req, JsonError(400, "invalid gameIdentifier format"))
            /\ UNCHANGED <<directorVars, gameMaster>>
       ELSE IF ~Truthy(apiKey)
       THEN /\ Respond(r, req, JsonError(500, "GAMEMASTER_API_KEY not configured"))
            /\ UNCHANGED <<directorVars, gameMaster>>
       ELSE /\ gameMaster' = GameMasterOrNew(gameMaster)
            /\ Call(r, SceneState(body.zmcdnSessionID, body.playerLocation,
                                  body.lastZMachineInput, body.lastZMachineOutput))
            /\ req' = [req EXCEPT ![r] =
                          [NoRequest EXCEPT
                              !.pc = "directing",
                              !.zmcdnSessionID = body.zmcdnSessionID,
                              !.gameIdentifier = body.gameIdentifier,
                              !.illustrationFormat = body.illustrationFormat]]
            /\ resp' = NoResponse

\* the path of the cache entry, lines 137 and 156-158
CachedImagePath(gameIdentifier, reuse_key) ==
    PathJoin(<<<<"cache">>, gameIdentifier.s, TemplateString(reuse_key) \o <<".png">>>>)
CacheDir(gameIdentifier) == PathJoin(<<<<"cache">>, gameIdentifier.s>>)

\* as CallGenerateImage, a request that misses on a prompt another request
\* is having drawn waiting for that image, with no call of its own
CallGenerateImageOncePerKey(requests, r, prompt) ==
    IF \E q \in DOMAIN requests \ {r} :
          requests[q].pc = "generating" /\ requests[q].prompt = prompt
    THEN [requests EXCEPT ![r].pc = "generating", ![r].prompt = prompt]
    ELSE [requests EXCEPT ![r].pc = "generating",
                          ![r].imageCalls = requests[r].imageCalls + 1,
                          ![r].prompt = prompt]

\* lines 144-145 and 150-151: new IllustratorFLUX(...).generateImage(
\* filteredContent) is called, by this request and for this request
CallGenerateImage(requests, r, prompt) ==
    [requests EXCEPT ![r].pc = "generating",
                     ![r].imageCalls = requests[r].imageCalls + 1,
                     ![r].prompt = prompt]

\* lines 122-152: the director has answered; the cached image is used or a
\* new one is asked for
Directed(r) ==
    /\ req[r].pc = "directing"
    /\ call[r].pc \in {"returned", "threw"}
    /\ call' = [call EXCEPT ![r] = Idle]
    /\ sent' = NoSent
    /\ UNCHANGED <<lastAnswers, started, appended, apiKey, gameMaster>>
    /\ LET filteredContent == call[r].result
           parsed == JSONparse(TemplateString(filteredContent))
           sceneData == parsed.v
           reuse_key == Get(sceneData, "reuse_key")
           cachedImagePath == CachedImagePath(req[r].gameIdentifier, reuse_key)
           directed == [req EXCEPT ![r].filteredContent = filteredContent]
       IN  IF call[r].pc = "threw"
           THEN /\ Respond(r, req, JsonError(500, "failed to process request"))
                /\ UNCHANGED <<files, dirs, now>>
           ELSE IF ~parsed.ok
           THEN /\ Respond(r, directed, JsonError(500, "Invalid JSON from game master"))
                /\ UNCHANGED <<files, dirs, now>>
           ELSE IF sceneData.t \in {"null", "undefined"}
           THEN /\ Respond(r, directed, JsonError(500, "failed to process request"))
                /\ UNCHANGED <<files, dirs, now>>
           ELSE IF /\ Get(sceneData, "repaint") = [t |-> "boolean", b |-> FALSE]
                   /\ Truthy(reuse_key)
                   /\ ExistsSync(cachedImagePath)
           THEN IF cachedImagePath \in dirs
                THEN /\ Respond(r, directed, JsonError(500, "failed to process request"))
                     /\ UNCHANGED <<files, dirs, now>>
                ELSE Deliver(r, [directed EXCEPT ![r].cached = Str(files[cachedImagePath])],
                             files, dirs, files[cachedImagePath])
           ELSE /\ req' = CallGenerateImage(directed, r, filteredContent)
                /\ resp' = NoResponse
                /\ UNCHANGED <<files, dirs, now>>

\* as SavesToCache, every image saved
SavesToCacheAlways(sceneData) == TRUE

\* line 155: sceneData.repaint === true && sceneData.reuse_key
SavesToCache(sceneData) ==
    /\ Get(sceneData, "repaint") = [t |-> "boolean", b |-> TRUE]
    /\ Truthy(Get(sceneData, "reuse_key"))

\* lines 145-162 after generateImage: the image is decoded, and stored when
\* the directive says repaint with a reuse_key
Generated(r) ==
    /\ req[r].pc = "generating"
    /\ UNCHANGED <<directorVars, apiKey, gameMaster>>
    /\ \E answer \in ImageBackend(r) :
          LET result == GenerateImage(answer)
              imageBuffer == BufferFromBase64(result.b64.s)
              sceneData == JSONparse(TemplateString(req[r].filteredContent)).v
              reuse_key == Get(sceneData, "reuse_key")
              cacheDir == CacheDir(req[r].gameIdentifier)
              cachedImagePath == CachedImagePath(req[r].gameIdentifier, reuse_key)
              made == Mkdir(dirs, cacheDir)
              got == [req EXCEPT ![r].generated = Str(imageBuffer)]
          IN  IF ~result.ok
              THEN /\ Respond(r, req, JsonError(500, "failed to process request"))
                   /\ UNCHANGED <<files, dirs, now>>
              ELSE IF SavesToCache(sceneData)
              THEN IF MkdirFails(cacheDir)
                   THEN /\ Respond(r, got, JsonError(500, "failed to process request"))
                        /\ UNCHANGED <<files, dirs, now>>
                   ELSE IF WriteFails(made, cachedImagePath)
                   THEN /\ Respond(r, got, JsonError(500, "failed to process request"))
                        /\ files' = files
                        /\ dirs' = made
                        /\ now' = now
                   ELSE Deliver(r, [got EXCEPT ![r].wrote = cachedImagePath],
                                Write(files, cachedImagePath, imageBuffer), made,
                                imageBuffer)
              ELSE Deliver(r, got, files, dirs, imageBuffer)

\* lines 42-49 of imageToSixel: loadImage reads the temporary file
Loaded(r) ==
    /\ req[r].pc = "loading"
    /\ req' = [req EXCEPT ![r].pc = "converting",
                          ![r].img = IF req[r].tempImagePath \in DOMAIN files
                                     THEN Str(files[req[r].tempImagePath])
                                     ELSE Undefined]
    /\ resp' = NoResponse
    /\ UNCHANGED <<directorVars, apiKey, gameMaster, files, dirs, now>>

\* lines 50-56 of imageToSixel: createCanvas, drawImage, getImageData and
\* image2sixel run outside the try of loadImage; each may throw on the
\* picture it is given
ConversionThrows == BOOLEAN

\* lines 50-56 of imageToSixel and 181-197: the image as sixel data and the
\* temporary file removed, or what was thrown caught at the end of the
\* handler
Converted(r) ==
    /\ req[r].pc = "converting"
    /\ UNCHANGED <<directorVars, apiKey, gameMaster, dirs, now>>
    /\ \E thrown \in ConversionThrows :
          IF req[r].img.t # "undefined" /\ thrown
          THEN /\ Respond(r, [req EXCEPT ![r].failure = "conversion"],
                          JsonError(500, "failed to process request"))
               /\ files' = files
          ELSE IF req[r].tempImagePath \notin DOMAIN files
          THEN /\ Respond(r, [req EXCEPT ![r].failure = "unlink"],
                          JsonError(500, "failed to process request"))
               /\ files' = files
          ELSE /\ files' = Unlink(files, req[r].tempImagePath)
               /\ IF req[r].img.t = "undefined"
                  THEN Respond(r, req, JsonError(500, "Failed to convert image to sixel"))
                  ELSE Respond(r, req, [status |-> 200, type |-> "text/plain",
                                        data |-> <<"sixel of">> \o req[r].img.s])

\* a step of the director's call of request r
Directing(r) ==
    /\ req[r].pc = "directing"
    /\ FetchSettles(r) \/ ReadSettles(r)
    /\ resp' = NoResponse
    /\ UNCHANGED <<apiKey, gameMaster, req, files, dirs, now>>

(***************************************************************************)
(* POST /generate and GET /print/:gameId/:hash/:format                     *)
(***************************************************************************)
\* crypto.createHash('sha512').update(text).digest('hex'), on the texts of
\* the requests
Sha512Hex(text) ==
    CASE text = <<"a mailbox">> -> <<"5f63">>
      [] text = <<"a leaflet">> -> <<"0b1e">>
      [] OTHER -> <<"cf83">>

\* a path as text: its components with "/" between
RECURSIVE PathText(_)
PathText(path) ==
    IF path = <<>> THEN <<>>
    ELSE IF Len(path) = 1 THEN <<path[1]>>
    ELSE <<path[1], "/">> \o PathText(Tail(path))

\* `/print/${gameID}/${hash}/png`
PrintUrl(gameID, hash) == <<"/print/">> \o gameID.s \o <<"/">> \o hash \o <<"/png">>

NoExchange ==
    [pc |-> "idle", route |-> "none", gameID |-> Undefined, text |-> Undefined,
     hash |-> <<>>, format |-> Undefined, imagePath |-> <<>>, img |-> Undefined,
     answered |-> "",        \* history: the message or error it was answered
     imageCalls |-> 0]       \* history: calls of the image API

\* res.json(...), res.send(...) or res.sendFile(...): the request is over
Answer(r, exchanges, status, message, body) ==
    /\ resp' = [to |-> r, status |-> status, message |-> message, body |-> body,
                request |-> exchanges[r]]
    /\ req' = [exchanges EXCEPT ![r].pc = "done", ![r].answered = message]

\* lines 56-91 of server.ts: the request is checked, the image looked for,
\* the directory made and the image asked for
PostGenerate(r, body) ==
    LET gameID == body.gameID
        text == body.text
        hash == Sha512Hex(text.s)
        cacheDir == PathJoin(<<<<"cache">>, gameID.s>>)
        imagePath == PathJoin(<<PathText(cacheDir), hash>>)
        posted == [req EXCEPT ![r] = [NoExchange EXCEPT !.route = "generate",
                                                        !.gameID = gameID,
                                                        !.text = text]]
        hashed == [posted EXCEPT ![r].hash = hash, ![r].imagePath = imagePath]
    IN  /\ req[r].pc = "idle"
        /\ \A q \in 1..(r - 1) : req[q].pc # "idle"
        /\ UNCHANGED <<apiKey, files, now>>
        /\ IF ~Truthy(gameID) \/ ~Truthy(text)
           THEN /\ Answer(r, posted, 400, "missing gameID or text parameters", Undefined)
                /\ UNCHANGED dirs
           ELSE IF ~Truthy(apiKey)
           THEN /\ Answer(r, posted, 500, "OPENAI_API_KEY not configured", Undefined)
                /\ UNCHANGED dirs
           ELSE IF ExistsSync(imagePath)
           THEN /\ Answer(r, hashed, 200, "image already exists",
                          Str(PrintUrl(gameID, hash)))
                /\ UNCHANGED dirs
           ELSE IF MkdirFails(cacheDir)
           \* thrown outside the try of an async handler: nothing is sent
           THEN /\ req' = [hashed EXCEPT ![r].pc = "rejected"]
                /\ resp' = NoResponse
                /\ UNCHANGED dirs
           ELSE /\ req' = [hashed EXCEPT ![r].pc = "generating",
                                         ![r].imageCalls = 1]
                /\ resp' = NoResponse
                /\ dirs' = Mkdir(dirs, cacheDir)

\* lines 91-102: generateImage has settled; what it returned is not looked at
PostGenerated(r, answer) ==
    LET outcome == ImageOutcome(answer, Str(PathText(req[r].imagePath)), files, dirs)
    IN  /\ req[r].pc = "generating"
        /\ files' = outcome.files
        /\ UNCHANGED <<apiKey, dirs, now>>
        /\ IF outcome.ok
           THEN Answer(r, req, 200, "image generated successfully",
                       Str(PrintUrl(req[r].gameID, req[r].hash)))
           ELSE Answer(r, req, 500, "failed to generate image", Undefined)

\* lines 113-152: the image is looked for and sent as the format asks
GetPrint(r, params) ==
    LET imagePath == PathJoin(<<<<"cache">>, params.gameId.s, params.hash.s>>)
        got == [req EXCEPT ![r] = [NoExchange EXCEPT !.route = "print",
                                                     !.gameID = params.gameId,
                                                     !.hash = params.hash.s,
                                                     !.format = params.format,
                                                     !.imagePath = imagePath]]
    IN  /\ req[r].pc = "idle"
        /\ \A q \in 1..(r - 1) : req[q].pc # "idle"
        /\ UNCHANGED <<apiKey, files, dirs, now>>
        /\ IF \/ ~Truthy(params.gameId)
              \/ ~Truthy(params.hash)
              \/ ~Truthy(params.format)
           THEN Answer(r, got, 400, "missing parameters", Undefined)
           ELSE IF ~ExistsSync(imagePath)
           THEN Answer(r, got, 404, "image not found", Undefined)
           ELSE IF params.format.s \in {<<"sixel">>, <<"SIXEL">>}
           THEN /\ req' = [got EXCEPT ![r].pc = "loading"]
                /\ resp' = NoResponse
           ELSE IF params.format.s \in {<<"png">>, <<"PNG">>}
           THEN IF imagePath \in DOMAIN files
                THEN Answer(r, got, 200, "image/png", Str(files[imagePath]))
                \* a directory is not sent: the request goes on to the
                \* answer of a route nobody handles
                ELSE Answer(r, got, 404, "Cannot GET", Undefined)
           ELSE Answer(r, got, 200, "format not supported", Undefined)

\* lines 23-29: loadImage reads the file
PrintLoaded(r) ==
    /\ req[r].pc = "loading"
    /\ req' = [req EXCEPT ![r].pc = "converting",
                          ![r].img = IF req[r].imagePath \in DOMAIN files
                                     THEN Str(files[req[r].imagePath])
                                     ELSE Undefined]
    /\ resp' = NoResponse
    /\ UNCHANGED <<apiKey, files, dirs, now>>

\* lines 30-36 and 131-140: the image as sixel data; what the conversion
\* throws is caught and answered as the image that cannot be loaded
PrintConverted(r) ==
    /\ req[r].pc = "converting"
    /\ UNCHANGED <<apiKey, files, dirs, now>>
    /\ \E thrown \in ConversionThrows :
          IF req[r].img.t = "undefined" \/ thrown
          THEN Answer(r, req, 500, "failed to convert image to sixel", Undefined)
          ELSE Answer(r, req, 200, "text/plain", Str(<<"sixel of">> \o req[r].img.s))

(***************************************************************************)
(* SpecPrint: the server of server.ts under requests to generate and to    *)
(* print the images of one game.                                           *)
(***************************************************************************)
Clients == 1..NumClients

GenerateBodies ==
    { [gameID |-> Str(<<"g1">>), text |-> Str(<<"a mailbox">>)],
      [gameID |-> Str(<<"g1">>), text |-> Str(<<"a leaflet">>)],
      [gameID |-> Str(<<"g1">>), text |-> Undefined],
      [gameID |-> Str(<<>>), text |-> Str(<<"a mailbox">>)] }

PrintParams ==
    { [gameId |-> Str(<<"g1">>), hash |-> Str(Sha512Hex(<<"a mailbox">>)),
       format |-> Str(format)] :
        format \in { <<"png">>, <<"sixel">>, <<"gif">> } }
    \cup { [gameId |-> Str(<<"g2">>), hash |-> Str(Sha512Hex(<<"a mailbox">>)),
            format |-> Str(<<"png">>)] }

\* what the image API answers
PrintAnswers ==
    { Resolved(Obj([data |-> Arr(<<Obj([b64_json |-> Payload(1)])>>)])),
      Resolved(Obj([data |-> Arr(<<Obj([b64_json |-> Payload(2)])>>)])),
      Resolved(Obj([data |-> Arr(<<Obj([url |-> Url])>>)])),
      Resolved(Obj([data |-> Arr(<<>>)])),
      Rejection }

InitPrint ==
    /\ lastAnswers = <<>>
    /\ call = <<>>
    /\ started = 0
    /\ appended = <<>>
    /\ sent = NoSent
    /\ apiKey \in { Str(<<"key">>), Undefined }
    /\ gameMaster = 0
    /\ req = [r \in Clients |-> NoExchange]
    /\ files = NoFiles
    /\ dirs = { <<>>, <<"..">> }
    /\ now = 0
    /\ resp = NoResponse
    /\ strip = NoStrip
    /\ illustration = NoIllustration
    /\ snapshot = <<>>

Generate(r) == \E body \in GenerateBodies : PostGenerate(r, body)
GenerateSettled(r) == \E answer \in PrintAnswers : PostGenerated(r, answer)
PrintImage(r) == \E params \in PrintParams : GetPrint(r, params)

NextPrint ==
    \/ \E r \in Clients : Generate(r) /\ UNCHANGED <<directorVars, gameMaster, unitVars>>
    \/ \E r \in Clients : GenerateSettled(r) /\ UNCHANGED <<directorVars, gameMaster, unitVars>>
    \/ \E r \in Clients : PrintImage(r) /\ UNCHANGED <<directorVars, gameMaster, unitVars>>
    \/ \E r \in Clients : PrintLoaded(r) /\ UNCHANGED <<directorVars, gameMaster, unitVars>>
    \/ \E r \in Clients : PrintConverted(r) /\ UNCHANGED <<directorVars, gameMaster, unitVars>>

SpecPrint == InitPrint /\ [][NextPrint]_vars

(***************************************************************************)
(* Spec: the server under requests for one game.                           *)
(***************************************************************************)
Requests == 1..NumRequests

MoveRequests ==
    { RequestBody(Str(<<"s1">>), Str(<<"mailbox">>), Str(<<"g1">>), format) :
        format \in { Str(<<"png">>), Undefined } }
    \cup { RequestBody(Undefined, Str(<<"mailbox">>), Str(<<"g1">>), Undefined),
           RequestBody(Str(<<"s1">>), Undefined, Str(<<"g1">>), Undefined),
           RequestBody(Str(<<"s1">>), Str(<<>>), Str(<<"g1">>), Undefined),
           RequestBody(Str(<<"s1">>), Str(<<"mailbox">>), Undefined, Undefined),
           RequestBody(Str(<<"s1">>), Str(<<"mailbox">>), Str(<<"g1", "/", "x">>),
                       Undefined) }

InitServer ==
    /\ lastAnswers = <<>>
    /\ call = [r \in Requests |-> Idle]
    /\ started = 0
    /\ appended = <<>>
    /\ sent = NoSent
    /\ apiKey \in { Str(<<"key">>), Undefined }
    /\ gameMaster = 0
    /\ req = [r \in Requests |-> NoRequest]
    /\ files = NoFiles
    /\ dirs = { <<>>, <<"..">> }
    /\ now = 0
    /\ resp = NoResponse
    /\ strip = NoStrip
    /\ illustration = NoIllustration
    /\ snapshot = <<>>

Receive(r) == \E body \in MoveRequests : IllustrateMove(r, body)

Next ==
    \/ \E r \in Requests : Receive(r) /\ UNCHANGED unitVars
    \/ \E r \in Requests : Directing(r) /\ UNCHANGED unitVars
    \/ \E r \in Requests : Directed(r) /\ UNCHANGED unitVars
    \/ \E r \in Requests : Generated(r) /\ UNCHANGED unitVars
    \/ \E r \in Requests : Loaded(r) /\ UNCHANGED unitVars
    \/ \E r \in Requests : Converted(r) /\ UNCHANGED unitVars

Spec == InitServer /\ [][Next]_vars

(***************************************************************************)
(* SpecDecision: the server under requests whose directive is any of       *)
(* DecisionDirectives, over a cache directory that is empty or holds an    *)
(* entry kept from an earlier run of the server.                           *)
(***************************************************************************)
Deciders == 1..NumDeciders

DecisionRequests ==
    { RequestBody(Str(<<"s1">>), Str(<<"leaflet">>), Str(<<"g1">>), format) :
        format \in { Str(<<"png">>), Undefined } }
    \cup { RequestBody(Str(<<"s1">>), Str(<<"leaflet">>), Str(<<"..">>),
                       Str(<<"png">>)) }

\* the image an earlier run of the server has stored
KeptImage == <<"i", "m", "g", "0">>
KeptEntry == <<"cache", "g1", "k1.png">>

InitDecision ==
    /\ lastAnswers = <<>>
    /\ call = [r \in Deciders |-> Idle]
    /\ started = 0
    /\ appended = <<>>
    /\ sent = NoSent
    /\ apiKey = Str(<<"key">>)
    /\ gameMaster = 0
    /\ req = [r \in Deciders |-> NoRequest]
    /\ \/ files = NoFiles /\ dirs = { <<>>, <<"..">> }
       \/ /\ files = Write(NoFiles, KeptEntry, KeptImage)
          /\ dirs = Mkdir({ <<>>, <<"..">> }, DirName(KeptEntry))
    /\ now = 0
    /\ resp = NoResponse
    /\ strip = NoStrip
    /\ illustration = NoIllustration
    /\ snapshot = <<>>

ReceiveDecision(r) == \E body \in DecisionRequests : IllustrateMove(r, body)

NextDecision ==
    \/ \E r \in Deciders : ReceiveDecision(r) /\ UNCHANGED unitVars
    \/ \E r \in Deciders : Directing(r) /\ UNCHANGED unitVars
    \/ \E r \in Deciders : Directed(r) /\ UNCHANGED unitVars
    \/ \E r \in Deciders : Generated(r) /\ UNCHANGED unitVars
    \/ \E r \in Deciders : Loaded(r) /\ UNCHANGED unitVars
    \/ \E r \in Deciders : Converted(r) /\ UNCHANGED unitVars

SpecDecision == InitDecision /\ [][NextDecision]_vars

(***************************************************************************)
(* SpecWaiting: the server under requests whose director call may meet a   *)
(* stream that never reports done.  The event loop runs every continuation *)
(* that is ready: each step of a request that can be taken is taken.       *)
(***************************************************************************)
WaitingRequests ==
    { RequestBody(Str(<<"s1">>), Str(<<"grating">>), Str(<<"g1">>), format) :
        format \in { Str(<<"png">>), Undefined } }

ReceiveWaiting(r) == \E body \in WaitingRequests : IllustrateMove(r, body)

NextWaiting ==
    \/ \E r \in Requests : ReceiveWaiting(r) /\ UNCHANGED unitVars
    \/ \E r \in Requests : Directing(r) /\ UNCHANGED unitVars
    \/ \E r \in Requests : Directed(r) /\ UNCHANGED unitVars
    \/ \E r \in Requests : Generated(r) /\ UNCHANGED unitVars
    \/ \E r \in Requests : Loaded(r) /\ UNCHANGED unitVars
    \/ \E r \in Requests : Converted(r) /\ UNCHANGED unitVars

EventLoop ==
    \A r \in Requests :
        /\ WF_vars(Directing(r) /\ UNCHANGED unitVars)
        /\ WF_vars(Directed(r) /\ UNCHANGED unitVars)
        /\ WF_vars(Generated(r) /\ UNCHANGED unitVars)
        /\ WF_vars(Loaded(r) /\ UNCHANGED unitVars)
        /\ WF_vars(Converted(r) /\ UNCHANGED unitVars)

SpecWaiting == InitServer /\ [][NextWaiting]_vars /\ EventLoop

(***************************************************************************)
(* SpecEntries: the server under requests whose directive may name, by a   *)
(* reuse_key with "..", a file of the directory cache itself.              *)
(***************************************************************************)
EntryRequests ==
    { RequestBody(Str(<<"s1">>), Str(<<"lamp">>), Str(<<"g1">>), format) :
        format \in { Str(<<"png">>), Undefined } }

ReceiveEntry(r) == \E body \in EntryRequests : IllustrateMove(r, body)

NextEntries ==
    \/ \E r \in Requests : ReceiveEntry(r) /\ UNCHANGED unitVars
    \/ \E r \in Requests : Directing(r) /\ UNCHANGED unitVars
    \/ \E r \in Requests : Directed(r) /\ UNCHANGED unitVars
    \/ \E r \in Requests : Generated(r) /\ UNCHANGED unitVars
    \/ \E r \in Requests : Loaded(r) /\ UNCHANGED unitVars
    \/ \E r \in Requests : Converted(r) /\ UNCHANGED unitVars

SpecEntries == InitServer /\ [][NextEntries]_vars

(***************************************************************************)
(* SpecIllustrator: calls of IllustratorFLUX.generateImage, with every     *)
(* kind of answer of the image backend.                                    *)
(***************************************************************************)
IllustratorAnswers ==
    UNION { ImageBackend(r) : r \in 1..2 }
    \cup { [kind |-> "response", ok |-> FALSE, status |-> status, json |-> Undefined] :
             status \in {400, 401, 429, 503} }
    \cup { ImageResult(Obj([data |-> Null])),
           ImageResult(Obj([data |-> Arr(<<Obj([b64_json |-> Null])>>)])),
           ImageResult(Obj([data |-> Arr(<<Null>>)])),
           ImageResult(Obj([data |-> Arr(<<Obj([b64_json |-> Payload(1)]),
                                           Obj([b64_json |-> Payload(2)])>>)])),
           ImageResult(Obj([data |-> Arr(<<Obj([b64_json |-> Str(<<>>)]),
                                           Obj([b64_json |-> Payload(2)])>>)])) }

IllustratorPrompts == { Str(<<"a mailbox">>), Str(<<>>) }
IllustratorSizes == { Str(<<"512x512">>), Str(<<"1024x1024">>) }

InitIllustrator ==
    /\ lastAnswers = <<>>
    /\ call = <<>>
    /\ started = 0
    /\ appended = <<>>
    /\ sent = NoSent
    /\ apiKey = Str(<<"key">>)
    /\ gameMaster = 0
    /\ req = <<>>
    /\ files = NoFiles
    /\ dirs = { <<>>, <<"..">> }
    /\ now = 0
    /\ resp = NoResponse
    /\ strip = NoStrip
    /\ illustration = NoIllustration
    /\ snapshot = <<>>

CallIllustrator ==
    /\ \E prompt \in IllustratorPrompts, size \in IllustratorSizes :
          GenerateImageCall(prompt, size)
    /\ UNCHANGED <<directorVars, serverVars, strip, snapshot>>

IllustratorFetched ==
    /\ \E answer \in IllustratorAnswers : GenerateImageFetched(answer)
    /\ UNCHANGED <<directorVars, serverVars, strip, snapshot>>

IllustratorSettled ==
    /\ GenerateImageSettled
    /\ UNCHANGED <<directorVars, serverVars, strip, snapshot>>

NextIllustrator == CallIllustrator \/ IllustratorFetched \/ IllustratorSettled

SpecIllustrator == InitIllustrator /\ [][NextIllustrator]_vars

(***************************************************************************)
(* SpecChatGPT: calls of IllustratorChatGPT.generateImage, with and        *)
(* without a save path, with every kind of answer of the image API.        *)
(***************************************************************************)
ChatGPTElements ==
    { Obj([b64_json |-> Payload(1)]),
      Obj([b64_json |-> Payload(2)]),
      Obj([url |-> Url]),
      Obj([b64_json |-> Payload(1), url |-> Url]),
      Obj([b64_json |-> Str(<<>>), url |-> Url]),
      Obj([b64_json |-> Null, url |-> Null]),
      Obj(NoMembers),
      Null }

ChatGPTAnswers ==
    { Resolved(Obj([data |-> Arr(<<e>>)])) : e \in ChatGPTElements }
    \cup { Resolved(Obj([data |-> Arr(<<>>)])),
           Resolved(Obj(NoMembers)),
           Resolved(Obj([data |-> Arr(<<Obj([url |-> Url]),
                                        Obj([b64_json |-> Payload(1)])>>)])),
           Resolved(Obj([data |-> Arr(<<Obj(NoMembers),
                                        Obj([b64_json |-> Payload(1)])>>)])),
           Rejection }

ChatGPTSizes == { Undefined, Str(<<"1792x1024">>) }

\* no save path, an empty one, a file of the directory of the process, a
\* file of a directory that does not exist
SavePaths ==
    { Undefined, Str(<<>>), Str(<<"out.png">>),
      Str(<<"cache", "/", "g1", "/", "h1">>) }

InitChatGPT ==
    /\ lastAnswers = <<>>
    /\ call = <<>>
    /\ started = 0
    /\ appended = <<>>
    /\ sent = NoSent
    /\ apiKey = Str(<<"key">>)
    /\ gameMaster = 0
    /\ req = <<>>
    /\ files = NoFiles
    /\ dirs = { <<>>, <<"..">> }
    /\ now = 0
    /\ resp = NoResponse
    /\ strip = NoStrip
    /\ illustration = NoImageCall
    /\ snapshot = <<>>

CallChatGPT ==
    /\ \E size \in ChatGPTSizes, saveToFile \in SavePaths :
          ImageCall(Str(<<"a mailbox">>), size, saveToFile)
    /\ UNCHANGED <<directorVars, apiKey, gameMaster, req, dirs, now, resp, strip, snapshot>>

ChatGPTSettled ==
    /\ \E answer \in ChatGPTAnswers : ImageSettled(answer)
    /\ UNCHANGED <<directorVars, apiKey, gameMaster, req, dirs, now, resp, strip, snapshot>>

NextChatGPT == CallChatGPT \/ ChatGPTSettled

SpecChatGPT == InitChatGPT /\ [][NextChatGPT]_vars

(***************************************************************************)
(* SpecHistory: callers of one instance, one game turn after the other.    *)
(***************************************************************************)
Callers == 1..NumCallers

TurnScene(output) ==
    SceneState(Str(<<"s1">>), Str(<<"West of House">>), Str(<<"look">>),
               Str(<<output>>))

InitDirector ==
    /\ lastAnswers = <<>>
    /\ call = [c \in Callers |-> Idle]
    /\ started = 0
    /\ appended = <<>>
    /\ sent = NoSent
    /\ apiKey = Str(<<"key">>)
    /\ gameMaster = 1
    /\ req = <<>>
    /\ files = NoFiles
    /\ dirs = { <<>>, <<"..">> }
    /\ now = 0
    /\ resp = NoResponse
    /\ strip = NoStrip
    /\ illustration = NoIllustration
    /\ snapshot = <<>>

CallTurn(c) ==
    /\ started < MaxCalls
    /\ \E output \in TurnOutputs : Call(c, TurnScene(output))

NextHistory ==
    \/ \E c \in Callers : CallTurn(c) /\ UNCHANGED <<serverVars, unitVars>>
    \/ \E c \in Callers : FetchSettles(c) /\ UNCHANGED <<serverVars, unitVars>>
    \/ \E c \in Callers : ReadSettles(c) /\ UNCHANGED <<serverVars, unitVars>>

SpecHistory == InitDirector /\ [][NextHistory]_vars

(***************************************************************************)
(* SpecSessions: sessions that call the one instance concurrently, each    *)
(* with the turns of its own game, after no call or after seven calls that *)
(* have completed one after the other.                                     *)
(***************************************************************************)
Sessions == 1..NumSessions

SessionOutputs == <<"You go north.", "You go south.">>
SessionOutput(c) == SessionOutputs[((c - 1) % 2) + 1]

SessionScene(c) ==
    SceneState(Str(<<"s" \o ToString(c)>>), Str(<<"West of House">>),
               Str(<<"look">>), Str(<<SessionOutput(c)>>))

\* the answer the director gives a session
SessionAnswer(c) == Str(Object(<<StringMember("visual_prompt", <<SessionOutput(c)>>)>>))

\* the history after seven calls of the first session
EarlierAnswers == [i \in 1..(maxAnswerHistory - 1) |-> SessionAnswer(1)]

InitSessions ==
    /\ lastAnswers \in { <<>>, EarlierAnswers }
    /\ appended = lastAnswers
    /\ call = [c \in Sessions |-> Idle]
    /\ started = 0
    /\ sent = NoSent
    /\ apiKey = Str(<<"key">>)
    /\ gameMaster = 1
    /\ req = <<>>
    /\ files = NoFiles
    /\ dirs = { <<>>, <<"..">> }
    /\ now = 0
    /\ resp = NoResponse
    /\ strip = NoStrip
    /\ illustration = NoIllustration
    /\ snapshot = [c \in Sessions |-> <<>>]

CallSession(c) ==
    /\ started < MaxSessionCalls
    /\ Call(c, SessionScene(c))
    /\ snapshot' = [snapshot EXCEPT ![c] = lastAnswers]

NextSessions ==
    \/ \E c \in Sessions : CallSession(c) /\ UNCHANGED <<serverVars, strip, illustration>>
    \/ \E c \in Sessions : FetchSettles(c) /\ UNCHANGED <<serverVars, unitVars>>
    \/ \E c \in Sessions : ReadSettles(c) /\ UNCHANGED <<serverVars, unitVars>>

SpecSessions == InitSessions /\ [][NextSessions]_vars

(***************************************************************************)
(* SpecDirector: one caller, every kind of answer of the text backend.     *)
(***************************************************************************)
DirectorScene ==
    SceneState(Str(<<"s1">>), Str(<<"West of House">>), Str(<<"open mailbox">>),
               Str(<<"Opening the small mailbox reveals a leaflet.">>))

CallDirector ==
    /\ started < MaxDirCalls
    /\ Call(1, DirectorScene)

NextDirector ==
    \/ CallDirector /\ UNCHANGED <<serverVars, unitVars>>
    \/ FetchSettles(1) /\ UNCHANGED <<serverVars, unitVars>>
    \/ ReadSettles(1) /\ UNCHANGED <<serverVars, unitVars>>

SpecDirector == InitDirector /\ [][NextDirector]_vars

(***************************************************************************)
(* SpecStrip: the reasoning markers are taken out of a text, and out of    *)
(* the result once more.  The text is put together from whole markers,     *)
(* ordinary characters and pieces of a marker.                             *)
(***************************************************************************)
WholePieces == { ThinkOpen, ThinkClose, <<"x">> }
Pieces == WholePieces \cup { <<"<", "t", "h">>, <<"i", "n", "k", ">">> }

RECURSIVE PieceLists(_)
PieceLists(n) ==
    IF n = 0 THEN { <<>> }
    ELSE LET shorter == PieceLists(n - 1)
         IN  shorter \cup { Append(l, p) : l \in shorter, p \in Pieces }

InitStrip ==
    /\ lastAnswers = <<>>
    /\ call = <<>>
    /\ started = 0
    /\ appended = <<>>
    /\ sent = NoSent
    /\ apiKey = Str(<<"key">>)
    /\ gameMaster = 0
    /\ req = <<>>
    /\ files = NoFiles
    /\ dirs = { <<>>, <<"..">> }
    /\ now = 0
    /\ resp = NoResponse
    /\ illustration = NoIllustration
    /\ snapshot = <<>>
    /\ \E l \in PieceLists(MaxPieces) :
          strip = [pc |-> "input", pieces |-> l, once |-> <<>>, twice |-> <<>>]

StripOnce ==
    /\ strip.pc = "input"
    /\ strip' = [strip EXCEPT !.pc = "once",
                              !.once = RemoveThink(Concat(strip.pieces))]
    /\ UNCHANGED <<directorVars, serverVars, illustration, snapshot>>

StripTwice ==
    /\ strip.pc = "once"
    /\ strip' = [strip EXCEPT !.pc = "twice",
                              !.twice = RemoveThink(strip.once)]
    /\ UNCHANGED <<directorVars, serverVars, illustration, snapshot>>

NextStrip == StripOnce \/ StripTwice

SpecStrip == InitStrip /\ [][NextStrip]_vars

(***************************************************************************)
(* The claims                                                              *)
(***************************************************************************)
LastOf(log, n) == SubSeq(log, Len(log) - n + 1, Len(log))

\* C1: once more than 8 answers have been appended, the stored history is
\* exactly the 8 most recently appended answers, in the order of appending.
HistoryIsLastEight ==
    Len(appended) > 8 =>
        /\ Len(lastAnswers) = 8
        /\ lastAnswers = LastOf(appended, 8)

\* nine answers appended, the evicted one unlike the one that took its
\* place, the stored ones not all alike
HistoryHasEvicted ==
    /\ Len(appended) = 9
    /\ appended[1] # appended[9]
    /\ lastAnswers[1] # lastAnswers[2]

\* C2: a request carries the system instruction, then one turn per answer
\* stored when the call started, oldest first, then the serialized scene
\* state: 1 + |history| + 1 messages, never more than 10.
RequestShape ==
    sent # NoSent =>
        LET m == sent.messages
            n == Len(sent.answers)
        IN  /\ Len(m) = 1 + n + 1
            /\ Len(m) <= 10
            /\ m[1] = [role |-> "system", content |-> gameMasterPrompt]
            /\ \A i \in 1..n :
                  m[1 + i] = [role |-> "user",
                              content |-> TemplateString(sent.answers[i])]
            /\ m[Len(m)] = [role |-> "user",
                            content |-> JSONstringify(call[sent.by].sceneState)]
            /\ \A i \in 2..Len(m) : m[i].role # "system"

\* a request of 10 messages whose oldest and newest history turns differ
RequestIsFull ==
    /\ sent # NoSent
    /\ Len(sent.messages) = 10
    /\ sent.messages[2] # sent.messages[9]
    /\ sent.answers = lastAnswers

\* the content the answer carries at choices[0].message.content
ContentOf(savedOutput) ==
    LET p == JSONparse(savedOutput)
    IN  IF p.ok
        THEN Get(Get(First(Get(p.v, "choices")), "message"), "content")
        ELSE Undefined

\* no content to extract: not JSON, choices missing or empty, message
\* missing, content missing or null
CannotExtract(savedOutput) == ContentOf(savedOutput).t \in {"undefined", "null"}

\* C3: when the content cannot be extracted from a successful response, the
\* call returns the whole buffered body.
FallsBackToBody ==
    \A c \in Callers :
        call[c].pc = "returned" /\ CannotExtract(call[c].savedOutput) =>
            call[c].result = Str(call[c].savedOutput)

\* the inclusive substring from the first "{" to the last "}", the text
\* itself when one of them is missing
RECURSIVE LastIndex(_, _, _)
LastIndex(text, i, ch) ==
    IF i = 0 THEN 0
    ELSE IF text[i] = ch THEN i
    ELSE LastIndex(text, i - 1, ch)

ExtractJsonObject(text) ==
    LET first == IndexFrom(text, 1, <<"{">>)
        last == LastIndex(text, Len(text), "}")
    IN  IF first = 0 \/ last = 0 THEN text ELSE SubSeq(text, first, last)

\* C4: the returned directive is the content from its first "{" to its
\* last "}", and the content itself when one of the two is absent.
ReturnsJsonObject ==
    \A c \in Callers :
        /\ call[c].pc = "returned"
        /\ ContentOf(call[c].savedOutput).t = "string"
        => call[c].result =
               Str(ExtractJsonObject(RemoveThink(ContentOf(call[c].savedOutput).s)))

HasThinkPair(text) ==
    \E i \in 1..Len(text) :
        /\ MatchAt(text, i, ThinkOpen)
        /\ IndexFrom(text, i + Len(ThinkOpen), ThinkClose) # 0

\* C5: whatever a call returns and appends has had its reasoning markers
\* stripped, the extracted content and the raw body alike.
ReturnIsStripped ==
    \A c \in Callers :
        call[c].pc = "returned" /\ call[c].result.t = "string" =>
            /\ ~HasThinkPair(call[c].result.s)
            /\ call[c].result.s =
                   RemoveThink(IF CannotExtract(call[c].savedOutput)
                               THEN call[c].savedOutput
                               ELSE ContentOf(call[c].savedOutput).s)

\* C6 as stated: for every text, stripping the stripped text changes
\* nothing.
StripIdempotent ==
    strip.pc = "twice" => strip.twice = strip.once

OnlyWholePieces == \A i \in 1..Len(strip.pieces) : strip.pieces[i] \in WholePieces

\* C6, amended: for every text made of whole markers and of characters that
\* are no part of a marker, stripping the stripped text changes nothing,
\* and the stripped text holds no marker pair.
StripIdempotentOnWholeMarkers ==
    OnlyWholePieces =>
        /\ strip.pc \in {"once", "twice"} => ~HasThinkPair(strip.once)
        /\ strip.pc = "twice" => strip.twice = strip.once

\* two pairs and text around them, stripped twice
StrippedTwoPairs ==
    /\ strip.pc = "twice"
    /\ OnlyWholePieces
    /\ strip.pieces = <<ThinkOpen, <<"x">>, ThinkClose, ThinkOpen, ThinkClose>>
    /\ strip.once = <<>>

\* C7: a call whose fetch was answered with a non-success status, or was
\* rejected, has thrown (the status in the error) after exactly one request.
FailsWithoutRetry ==
    \A c \in Callers :
        /\ call[c].fetches <= 1
        /\ call[c].settled.kind # "none" =>
              /\ call[c].settled.kind = "rejection" =>
                    /\ call[c].pc = "threw"
                    /\ call[c].error = [kind |-> "network"]
                    /\ call[c].fetches = 1
              /\ call[c].settled.kind = "response" /\ ~call[c].settled.ok =>
                    /\ call[c].pc = "threw"
                    /\ call[c].error =
                           [kind |-> "status", status |-> call[c].settled.status]
                    /\ call[c].fetches = 1

\* a second call has failed on a 429 after the first returned
FailedOnStatus ==
    /\ started = 2
    /\ Len(appended) = 1
    /\ call[1].pc = "threw"
    /\ call[1].error = [kind |-> "status", status |-> 429]

(***************************************************************************)
(* The cache decision of POST /illustrateMove (Spec).                      *)
(***************************************************************************)
False == [t |-> "boolean", b |-> FALSE]
True == [t |-> "boolean", b |-> TRUE]

\* a field that is there and not empty
Present(v) == v.t \notin {"undefined", "null"} /\ v # Str(<<>>)

\* the director's answer is a directive with this repaint and a reuse_key
DirectiveSays(content, repaint) ==
    LET p == JSONparse(TemplateString(content))
    IN  /\ p.ok
        /\ p.v.t = "object"
        /\ Get(p.v, "repaint") = repaint
        /\ Present(Get(p.v, "reuse_key"))

\* where the entry of (collection, reuse_key) is kept
EntryPath(collection, content) ==
    CachedImagePath(collection,
                    Get(JSONparse(TemplateString(content)).v, "reuse_key"))

\* the picture the image backend draws for request r
ImageOf(r) == <<"i", "m", "g", ToString(r)>>

\* request r goes on from the director's answer in this step
DecidesOn(r) ==
    /\ req[r].pc = "directing"
    /\ req'[r].pc # "directing"
    /\ call[r].pc = "returned"

\* the image of request r is given out in this step: sent as it is, or
\* handed to the conversion in a temporary file
GivesOut(r, bytes) ==
    IF req[r].illustrationFormat = Str(<<"png">>)
    THEN /\ resp'.to = r
         /\ resp'.body = [status |-> 200, type |-> "image/png", data |-> bytes]
    ELSE /\ resp' = NoResponse
         /\ req'[r].pc = "loading"
         /\ req'[r].imageBuffer = bytes
         /\ req'[r].tempImagePath \in DOMAIN files'
         /\ files'[req'[r].tempImagePath] = bytes

RepaintStoresGenerated ==
    (/\ resp.to # 0
     /\ resp.request.generated # Undefined
     /\ DirectiveSays(resp.request.filteredContent, True))
    => LET entry == EntryPath(resp.request.gameIdentifier,
                              resp.request.filteredContent)
       IN  /\ entry \in DOMAIN files
           /\ files[entry] = resp.request.generated.s

TempPaths ==
    { PathJoin(<<<<"cache">>, <<"temp_" \o ToString(t) \o ".png">>>>) :
        t \in 0..(MaxClock + 1) }

\* the cache entries among the files
Entries(fs) == [q \in DOMAIN fs \ TempPaths |-> fs[q]]

\* request r as it is after the step, answered or not
After(r) == IF resp'.to = r THEN resp'.request ELSE req'[r]

\* C11: the cache entries change only in the step in which a request whose
\* directive says repaint true with a reuse_key has its generated image;
\* the change is the entry of (collection, reuse_key) with the generated
\* bytes.  Every other step leaves the entries as they are.
CacheWrittenOnlyOnRepaint ==
    [][Entries(files') # Entries(files)
        => \E r \in DOMAIN req :
              /\ req[r].pc = "generating"
              /\ req'[r].pc # "generating"
              /\ DirectiveSays(req[r].filteredContent, True)
              /\ After(r).generated # Undefined
              /\ Entries(files') =
                    Write(Entries(files),
                          EntryPath(req[r].gameIdentifier, req[r].filteredContent),
                          After(r).generated.s)]_vars

\* a request with repaint true and a reuse_key has replaced the entry kept
ReplacedKeptEntry ==
    /\ resp.to # 0
    /\ resp.body.status = 200
    /\ DirectiveSays(resp.request.filteredContent, True)
    /\ resp.request.wrote = KeptEntry
    /\ KeptEntry \in DOMAIN files
    /\ files[KeptEntry] = ImageOf(resp.to)
    /\ files[KeptEntry] # KeptImage

\* the texts of DecisionDirectives and of the director's other results
\* that are no JSON
NoJsonTexts == { <<"no json here">>, <<"undefined">> }

\* C12: when the director's answer is no JSON, the request is answered in
\* that step with an error and no image; it has called no image backend,
\* read no entry, and the files are as before.
InvalidDirectiveFails ==
    [][\A r \in DOMAIN req :
            (/\ DecidesOn(r)
             /\ TemplateString(call[r].result) \in NoJsonTexts)
            => /\ resp'.to = r
               /\ resp'.body.status = 500
               /\ resp'.body.type = "json"
               /\ resp'.request.imageCalls = 0
               /\ resp'.request.cached = Undefined
               /\ resp'.request.generated = Undefined
               /\ files' = files
               /\ dirs' = dirs]_vars

\* a request was refused for its directive
RefusedInvalidDirective ==
    /\ resp.to # 0
    /\ resp.body = [status |-> 500, type |-> "json",
                    error |-> "Invalid JSON from game master"]
    /\ resp.request.filteredContent = Str(<<"no json here">>)
    /\ resp.request.imageCalls = 0

\* C13: when the director's answer is JSON in which repaint or reuse_key is
\* absent (a directive without the field, or a value that is no object),
\* the request goes on to image generation: no error is sent, no entry is
\* read, and the files are as before.
AbsentFieldsGenerate ==
    [][\A r \in DOMAIN req :
            (/\ DecidesOn(r)
             /\ JSONparse(TemplateString(call[r].result)).ok
             /\ LET v == JSONparse(TemplateString(call[r].result)).v
                IN  \/ Get(v, "repaint") = Undefined
                    \/ Get(v, "reuse_key") = Undefined)
            => /\ resp' = NoResponse
               /\ req'[r].pc = "generating"
               /\ req'[r].cached = Undefined
               /\ files' = files]_vars

\* C14: the prompt of every call of the image backend is the visual_prompt
\* of the parsed directive.
PromptIsVisualPrompt ==
    \A r \in DOMAIN req :
        req[r].pc = "generating"
        => req[r].prompt =
              Get(JSONparse(TemplateString(req[r].filteredContent)).v, "visual_prompt")

(***************************************************************************)
(* The course of a request (Spec).                                         *)
(***************************************************************************)
\* C15: an accepted request starts one director call, which sends one
\* request; it calls the image backend at most once, and only when the
\* director has returned a directive that parses; it is answered once, with
\* an image or with an error; an error of the director or of the image
\* backend is answered with an error in the step in which it is seen.
LinearRequest ==
    /\ [](\A r \in DOMAIN req :
            /\ req[r].pc = "directing"
               => /\ call[r].pc \in {"fetch", "read", "returned", "threw"}
                  /\ call[r].fetches = 1
                  /\ req[r].imageCalls = 0
            /\ req[r].pc \in {"generating", "loading", "converting"}
               => /\ call[r].pc = "idle"
                  /\ req[r].imageCalls <= 1
                  /\ JSONparse(TemplateString(req[r].filteredContent)).ok
            /\ req[r].pc = "generating" => req[r].imageCalls = 1)
    /\ [](resp.to # 0
            => /\ req[resp.to].pc = "done"
               /\ resp.request.pc \in {"idle", "directing", "generating", "converting"}
               /\ resp.request.imageCalls <= 1
               /\ IF resp.body.status = 200
                  THEN "data" \in DOMAIN resp.body /\ "error" \notin DOMAIN resp.body
                  ELSE "error" \in DOMAIN resp.body /\ "data" \notin DOMAIN resp.body)
    /\ [][/\ started' # started
             => \E r \in DOMAIN req :
                   /\ req[r].pc = "idle"
                   /\ req'[r].pc = "directing"
                   /\ started' = started + 1
          /\ \A r \in DOMAIN req :
                /\ req[r].pc = "idle" /\ req'[r].pc = "directing"
                   => started' = started + 1 /\ call'[r].pc = "fetch"
                /\ req[r].pc = "done" => req'[r].pc = "done" /\ resp'.to # r
                /\ req[r].pc \notin {"idle", "done"} /\ req'[r].pc = "done"
                   => resp'.to = r
                /\ After(r).imageCalls # req[r].imageCalls /\ req[r].pc # "done"
                   => /\ req[r].imageCalls = 0
                      /\ call[r].pc = "returned"
                      /\ JSONparse(TemplateString(call[r].result)).ok
                      /\ req'[r].pc = "generating"
                /\ req[r].pc = "directing" /\ call[r].pc = "threw" /\ req'[r] # req[r]
                   => resp'.to = r /\ resp'.body.status = 500
                /\ (/\ req[r].pc = "generating"
                    /\ req'[r].pc # "generating"
                    /\ After(r).generated = Undefined)
                   => resp'.to = r /\ resp'.body.status = 500]_vars

\* a request was answered with the sixel data of the image generated for it
AnsweredWithSixel ==
    /\ resp.to # 0
    /\ resp.body.status = 200
    /\ resp.body.type = "text/plain"
    /\ resp.request.imageCalls = 1
    /\ started >= 1

\* the images there are: those the image backend draws, and the one kept
Images == { ImageOf(q) : q \in DOMAIN req } \cup { KeptImage }

\* C16: a request is answered once.  An answer to a request that failed is
\* an error status with an error text and nothing else; an answer of
\* success is the whole of one image, as png bytes or as the sixel data of
\* its conversion.
WholeImageOrError ==
    /\ [](resp.to # 0
            => IF resp.body.status = 200
               THEN \/ /\ resp.body.type = "image/png"
                       /\ resp.body.data \in Images
                       /\ resp.body.data = resp.request.imageBuffer
                       /\ DOMAIN resp.body = {"status", "type", "data"}
                    \/ /\ resp.body.type = "text/plain"
                       /\ \E image \in Images :
                             resp.body.data = <<"sixel of">> \o image
                       /\ DOMAIN resp.body = {"status", "type", "data"}
               ELSE /\ resp.body.status \in {400, 500}
                    /\ resp.body.type = "json"
                    /\ DOMAIN resp.body = {"status", "type", "error"})
    /\ [][\A r \in DOMAIN req :
            /\ req[r].pc # "done" /\ req'[r].pc = "done" => resp'.to = r
            /\ req[r].pc = "done" => resp'.to # r
            /\ resp'.to = r => req[r].pc # "done" /\ req'[r].pc = "done"]_vars

\* a request failed in the conversion, after its image was generated
FailedInConversion ==
    /\ resp.to # 0
    /\ resp.request.pc = "converting"
    /\ resp.request.generated # Undefined
    /\ resp.body.status = 500

(***************************************************************************)
(* IllustratorFLUX.generateImage (SpecIllustrator).                        *)
(***************************************************************************)
\* the answer is a result list that is not empty and whose first element
\* has a payload that is not empty
HasPayload(answer) ==
    /\ answer.json.t = "object"
    /\ "data" \in DOMAIN answer.json.m
    /\ answer.json.m.data.t = "array"
    /\ Len(answer.json.m.data.a) > 0
    /\ answer.json.m.data.a[1].t = "object"
    /\ "b64_json" \in DOMAIN answer.json.m.data.a[1].m
    /\ answer.json.m.data.a[1].m.b64_json.t = "string"
    /\ answer.json.m.data.a[1].m.b64_json.s # <<>>

\* C17: generateImage returns when the response is a success with a payload
\* in the first element of its result list, and what it returns is that
\* payload; a response that is no success makes it fail with the status; a
\* success without the list, with an empty list or without the payload
\* makes it fail for missing image data; a call that failed returned
\* nothing.
GenerateImageOutcome ==
    LET answer == illustration.answer
    IN  /\ illustration.pc = "returned"
           => /\ answer.kind = "response"
              /\ answer.ok
              /\ HasPayload(answer)
              /\ illustration.result = answer.json.m.data.a[1].m.b64_json
              /\ illustration.error = Undefined
        /\ illustration.pc = "threw"
           => /\ illustration.result = Undefined
              /\ IF answer.kind = "rejection"
                 THEN illustration.error = [kind |-> "network"]
                 ELSE IF ~answer.ok
                 THEN illustration.error = [kind |-> "status", status |-> answer.status]
                 ELSE /\ ~HasPayload(answer)
                      /\ illustration.error = [kind |-> "no image data"]

\* a call failed on a list that is there and empty
FailedOnEmptyList ==
    /\ illustration.pc = "threw"
    /\ illustration.answer.kind = "response"
    /\ illustration.answer.ok
    /\ illustration.answer.json = Obj([data |-> Arr(<<>>)])
    /\ illustration.error = [kind |-> "no image data"]
    /\ illustration.result = Undefined

(***************************************************************************)
(* Where the cache entries are kept (SpecDecision, Spec).                  *)
(***************************************************************************)
\* C18: a request of session s1 for a game of another name, whose
\* directive says repaint true with a reuse_key and whose image was
\* generated, is answered with the generated bytes, and the entry of
\* (session, reuse_key) holds them.
EntryUnderSession ==
    (/\ resp.to # 0
     /\ resp.body.status = 200
     /\ resp.request.zmcdnSessionID # resp.request.gameIdentifier
     /\ DirectiveSays(resp.request.filteredContent, True))
    => LET entry == EntryPath(resp.request.zmcdnSessionID,
                              resp.request.filteredContent)
       IN  /\ resp.request.imageCalls = 1
           /\ resp.request.generated # Undefined
           /\ entry \in DOMAIN files
           /\ files[entry] = resp.request.generated.s

\* C19: every cache file is in the directory of a collection whose name is
\* letters and digits: cache/<collection>/<file>.
EntriesStayInCollection ==
    \A path \in DOMAIN files \ TempPaths :
        /\ Len(path) = 3
        /\ path[1] = "cache"
        /\ path[2] \in AlphanumericRuns

\* C20: an entry holds the whole image of one request, at all times; a
\* request that writes an entry which is there already puts its own image in
\* its place, and goes on as it would have without the entry.
LastWriterWins ==
    /\ [](\A path \in DOMAIN files \ TempPaths : files[path] \in Images)
    /\ [][\A r \in DOMAIN req :
            (/\ req[r].pc = "generating"
             /\ req'[r].pc # "generating"
             /\ After(r).generated # Undefined
             /\ DirectiveSays(req[r].filteredContent, True)
             /\ EntryPath(req[r].gameIdentifier, req[r].filteredContent)
                    \in DOMAIN files)
            => /\ files'[EntryPath(req[r].gameIdentifier, req[r].filteredContent)]
                    = ImageOf(r)
               /\ GivesOut(r, ImageOf(r))]_vars

\* a request has put its image in the place of the image of a request that
\* is still under way
WroteOverConcurrentWriter ==
    /\ resp.to # 0
    /\ resp.body.status = 200
    /\ resp.request.wrote # <<>>
    /\ files[resp.request.wrote] = ImageOf(resp.to)
    /\ \E q \in DOMAIN req :
          /\ req[q].pc \in {"loading", "converting"}
          /\ req[q].wrote = resp.request.wrote
          /\ req[q].generated.s # files[resp.request.wrote]

(***************************************************************************)
(* C21..C30                                                                *)
(***************************************************************************)
\* the stream of request r's director call has completed, or the call has
\* ended otherwise
Drained(r) == ~(call[r].pc = "read" /\ call[r].chunks = <<>> /\ call[r].stalls)

\* C21: every backend call has bounded execution: a request the server has
\* accepted is answered in the end, also when the response stream of its
\* director call never signals completion.
BoundedExecution ==
    \A r \in Requests : (req[r].pc = "directing") ~> (req[r].pc = "done")

\* the first element of the answer the call of generateImage got
FirstElement ==
    LET answer == illustration.answer
    IN  IF /\ answer.kind = "resolved"
           /\ Present(Get(answer.value, "data"))
           /\ Get(answer.value, "data").t = "array"
           /\ Len(Get(answer.value, "data").a) > 0
        THEN Get(answer.value, "data").a[1]
        ELSE Undefined

HasSavePath == Present(illustration.saveToFile)
SettledCall == illustration.pc \in {"returned", "threw"}

\* the file of the save path holds the picture of the payload
SavedPicture ==
    /\ DOMAIN files = DOMAIN illustration.before
                         \cup {Split(illustration.saveToFile.s)}
    /\ \A q \in DOMAIN illustration.before :
          q # Split(illustration.saveToFile.s) => files[q] = illustration.before[q]
    /\ \E r \in 1..2 :
          /\ Get(FirstElement, "b64_json") = Str(<<"aW1n", DigitGroup[r]>>)
          /\ files[Split(illustration.saveToFile.s)] = ImageOf(r)

\* what the claim says of the three cases without a file, and of failure
ShapeWithoutFile ==
    LET b64_json == Get(FirstElement, "b64_json")
        url == Get(FirstElement, "url")
    IN  /\ (Present(b64_json) /\ ~HasSavePath) =>
              /\ illustration.pc = "returned"
              /\ illustration.result
                   = Str(<<"data:image/png;base64,">> \o b64_json.s)
              /\ files = illustration.before
        /\ (~Present(b64_json) /\ Present(url)) =>
              /\ illustration.pc = "returned"
              /\ illustration.result = url
              /\ files = illustration.before
        /\ (~Present(FirstElement) \/ (~Present(b64_json) /\ ~Present(url))) =>
              /\ illustration.pc = "threw"
              /\ files = illustration.before

SavedAndSaid ==
    /\ illustration.pc = "returned"
    /\ illustration.result
         = Str(<<"Saved image to ">> \o illustration.saveToFile.s)
    /\ SavedPicture

\* C22 as stated: the result of IllustratorChatGPT.generateImage depends on
\* the first element of the answer alone; with b64_json and a save path the
\* picture is written there and 'Saved image to' returned; with b64_json
\* and no save path a data URI is returned; with a url alone the url; with
\* no first element or neither field the call fails; a file is written in
\* the first case only.
ResultShape ==
    (SettledCall /\ illustration.answer.kind = "resolved") =>
        /\ ShapeWithoutFile
        /\ (Present(Get(FirstElement, "b64_json")) /\ HasSavePath) => SavedAndSaid

\* C22 amended: as ResultShape, but with b64_json and a save path that
\* cannot be written the call fails with the error of the write and no file
\* is written.
ResultShapeOrWriteError ==
    (SettledCall /\ illustration.answer.kind = "resolved") =>
        /\ ShapeWithoutFile
        /\ (Present(Get(FirstElement, "b64_json")) /\ HasSavePath) =>
              IF DirName(Split(illustration.saveToFile.s)) \in dirs
              THEN SavedAndSaid
              ELSE /\ illustration.pc = "threw"
                   /\ illustration.error = Str(<<"write">>)
                   /\ files = illustration.before

\* a second call has written its picture over the file of the first
SavedOverFile ==
    /\ illustration.pc = "returned"
    /\ illustration.calls = 2
    /\ HasSavePath
    /\ Split(illustration.saveToFile.s) \in DOMAIN illustration.before
    /\ files # illustration.before

\* where server.ts keeps the image of (gameID, hash)
ImageEntry(gameID, hash) == <<"cache">> \o gameID.s \o hash

\* the request answered in this state
AnsweredNow(route) == resp.to # 0 /\ resp.request.route = route

\* C23: whenever POST /generate answers 'image generated successfully' for
\* (gameID, text), the image is saved at cache/gameID/hash(text), and a
\* GET /print/gameID/hash/png that follows does not answer 404.
GeneratedImageIsSaved ==
    /\ (AnsweredNow("generate") /\ resp.message = "image generated successfully") =>
          ImageEntry(resp.request.gameID, Sha512Hex(resp.request.text.s))
              \in DOMAIN files
    /\ (AnsweredNow("print") /\ resp.status = 404) =>
          \A q \in Clients \ {resp.to} :
              ~ /\ req[q].pc = "done"
                /\ req[q].answered = "image generated successfully"
                /\ req[q].gameID = resp.request.gameID
                /\ Sha512Hex(req[q].text.s) = resp.request.hash

\* a request to print comes in with this step
PrintComes(r) == req[r].pc = "idle" /\ req'[r].route = "print"

InFlight(c) == call[c].pc \in {"fetch", "read"}

\* C25: the history never holds more than 8 entries in a state another
\* request can observe, under every interleaving of concurrent calls.
HistoryAtMostEight == Len(lastAnswers) <= 8

\* the ninth answer has taken the place of the first, both callers have
\* had answers, and not the same
EvictedUnderCalls ==
    /\ Len(lastAnswers) = 8
    /\ Len(appended) = 9
    /\ \A c \in {1, 2} : call[c].pc = "returned"
    /\ call[1].result # call[2].result
    /\ lastAnswers[8] # lastAnswers[7]

Min(a, b) == IF a < b THEN a ELSE b

Starts(c) == ~InFlight(c) /\ InFlight(c)'
Completes(c) == InFlight(c) /\ call'[c].pc = "returned"

\* C26: no append is lost under concurrent calls: a call that starts
\* replays the history as it is then; a call that completes puts its answer
\* after the history as it is then, whatever the call started with; after n
\* completions the history is the last min(n, 8) answers in the order of
\* completion.
NoAppendLost ==
    /\ [][\A c \in Sessions : Starts(c) =>
            /\ sent'.by = c
            /\ Len(sent'.messages) = Len(lastAnswers) + 2
            /\ \A i \in 1..Len(lastAnswers) :
                  sent'.messages[1 + i].content = TemplateString(lastAnswers[i])
            /\ lastAnswers' = lastAnswers]_vars
    /\ [][\A c \in Sessions : Completes(c) =>
            LET whole == Append(lastAnswers, call'[c].result)
            IN  /\ lastAnswers' = LastOf(whole, Min(Len(whole), 8))
                /\ appended' = Append(appended, call'[c].result)]_vars
    /\ [](lastAnswers = LastOf(appended, Min(Len(appended), 8)))

\* the request of the first session, still in flight, replayed an answer
\* given to the second session, and lacks the answer the second session
\* got since; both answers are in the history
InterleavedSessions ==
    /\ InFlight(1)
    /\ snapshot[1] = <<SessionAnswer(2)>>
    /\ lastAnswers = <<SessionAnswer(2), SessionAnswer(2)>>
    /\ call[2].pc = "returned"
    /\ call[1].sceneState.zmcdnSessionID # call[2].sceneState.zmcdnSessionID

\* the bytes of the body the call has: those of the text it has buffered,
\* those its decoder keeps, and those of the chunks still to be read
BodyBytes(c) == Encode(call[c].savedOutput) \o call[c].pending \o Concat(call[c].chunks)

\* C27: the body of the response is drained before anything is parsed,
\* appended or returned: every read adds its chunk to the end of the
\* buffered text, nothing is appended or returned while chunks are left,
\* the call returns on the whole text when the stream reports done, and a
\* successful response without a body gives the empty string.
DrainsBeforeUse ==
    [][/\ (call[1].pc = "read" /\ call'[1].pc = "read") =>
            /\ BodyBytes(1)' = BodyBytes(1)
            /\ Len(call'[1].chunks) = Len(call[1].chunks) - 1
            /\ lastAnswers' = lastAnswers
            /\ call'[1].result = Undefined
       /\ (call[1].pc = "read" /\ call'[1].pc = "returned") =>
            /\ call[1].chunks = <<>>
            /\ call[1].pending = <<>>
            /\ call'[1].savedOutput = call[1].savedOutput
            /\ lastAnswers' = Append(lastAnswers, call'[1].result)
       /\ (call[1].pc = "fetch" /\ call'[1].pc = "returned") =>
            /\ call'[1].savedOutput = <<>>
            /\ call'[1].result = Str(<<>>)
            /\ lastAnswers' = Append(lastAnswers, Str(<<>>))]_vars

\* a call has returned on a text that came in several chunks, one of them
\* ending inside a character
DrainedSplitCharacter ==
    /\ call[1].pc = "returned"
    /\ Len(Encode(call[1].savedOutput)) > ChunkLen
    /\ Encode(call[1].savedOutput)[ChunkLen] = "0xC3"

\* C28: a call that fails, on a status, a network error or an error while
\* the stream is drained, leaves the history as it was; the history changes
\* only in the step in which a call returns, by the one append of the text
\* returned.
FailureKeepsHistory ==
    [][/\ (InFlight(1) /\ call'[1].pc = "threw") =>
            /\ lastAnswers' = lastAnswers
            /\ appended' = appended
       /\ lastAnswers' # lastAnswers =>
            /\ InFlight(1)
            /\ call'[1].pc = "returned"
            /\ lastAnswers' = Append(lastAnswers, call'[1].result)
            /\ Len(lastAnswers') <= 8]_vars

\* a call has failed while its stream was drained, after the first chunk
\* was read; the history holds the answer of the call before it
FailedWhileDraining ==
    /\ call[1].pc = "threw"
    /\ call[1].error = [kind |-> "stream"]
    /\ call[1].savedOutput # <<>>
    /\ Len(lastAnswers) = 1
    /\ started = 2

\* the request answered in this state has failed past the director's call
FailedPastDirector ==
    /\ resp.to # 0
    /\ resp.body.status = 500
    /\ resp.request.filteredContent # Undefined

\* C29: the director's answer is in the history before the handler looks at
\* it: a request that fails later, on a directive that is no JSON, on the
\* image generation or on the conversion, leaves its directive text in the
\* history, and the requests that follow replay it to the text backend.
FailedDirectiveStays ==
    /\ FailedPastDirector =>
          \E i \in 1..Len(lastAnswers) : lastAnswers[i] = resp.request.filteredContent
    /\ Len(appended) <= 8 => lastAnswers = appended
    /\ sent # NoSent =>
          /\ sent.answers = lastAnswers
          /\ \A i \in 1..Len(lastAnswers) :
                sent.messages[1 + i].content = TemplateString(lastAnswers[i])

\* the second request replays the text, no JSON, that made the first fail
ReplaysFailedDirective ==
    /\ sent # NoSent
    /\ sent.by = 2
    /\ req[1].pc = "done"
    /\ sent.answers = <<Str(<<"no json here">>)>>
    /\ sent.messages[2].content = <<"no json here">>

\* C30: at most one director instance is ever made, also when the first
\* requests come in concurrently; once made it is never replaced, and its
\* history is never reset: what a request has added stays for the requests
\* after it.
OneGameMaster ==
    /\ [](gameMaster \in {0, 1})
    /\ [](gameMaster = 0 => lastAnswers = <<>> /\ started = 0)
    /\ [][/\ gameMaster # 0 => gameMaster' = gameMaster
          /\ Len(lastAnswers') >= Len(lastAnswers)
          /\ Len(lastAnswers') <= 8 =>
                \A i \in 1..Len(lastAnswers) : lastAnswers'[i] = lastAnswers[i]]_vars

\* the first two requests wait for the director at the same time, the
\* second replaying nothing as the first has no answer yet
FirstRequestsConcurrent ==
    /\ gameMaster = 1
    /\ started = 2
    /\ \A r \in {1, 2} : req[r].pc = "directing" /\ InFlight(r)
    /\ lastAnswers = <<>>

(***************************************************************************)
(* C31..C36                                                                *)
(***************************************************************************)
\* the answers of the validation, lines 93-106
ValidationErrors ==
    { JsonError(400, "missing required JSON parameters"),
      JsonError(400, "invalid gameIdentifier format"),
      JsonError(500, "GAMEMASTER_API_KEY not configured") }

\* an identifier of letters, digits and dots only
InCharacterSet(v) ==
    /\ v.t = "string"
    /\ v.s # <<>>
    /\ \A i \in 1..Len(v.s) : v.s[i] \in AlphanumericRuns \cup {".", ".."}

\* C31: a request refused by the validation (session, game output or game
\* identifier missing, identifier outside the character set, no API key) is
\* answered in the step that receives it, before any backend call, and
\* leaves the history, the director instance and the cache as they were;
\* only a request with all of these in order gets to the director.
RejectedLeavesNoTrace ==
    [][\A r \in Requests :
          (req[r].pc = "idle" /\ req'[r].pc # "idle") =>
             IF req'[r].pc = "directing"
             THEN /\ Present(req'[r].zmcdnSessionID)
                  /\ Present(call'[r].sceneState.lastZMachineOutput)
                  /\ InCharacterSet(req'[r].gameIdentifier)
                  /\ Present(apiKey)
                  /\ started' = started + 1
             ELSE /\ req'[r].pc = "done"
                  /\ resp'.to = r
                  /\ resp'.body \in ValidationErrors
                  /\ resp'.request.imageCalls = 0
                  /\ UNCHANGED <<lastAnswers, appended, call, started, sent,
                                 gameMaster, files, dirs, now>>]_vars

\* the second request is refused for its identifier while the history
\* holds the answer of the first and the cache its image
RejectedBesideHistory ==
    /\ resp.to = 2
    /\ resp.body = JsonError(400, "invalid gameIdentifier format")
    /\ gameMaster = 1
    /\ lastAnswers # <<>>
    /\ <<"cache", "g1", "k1.png">> \in DOMAIN files

\* the request answered in this state had its image in a temporary file
AnsweredAfterConversion ==
    /\ resp.to # 0
    /\ resp.request.pc = "converting"

\* C32: concurrent sixel requests do not meet in the temporary file: the
\* sixel data a request is sent is the conversion of the image bytes of that
\* request, and the removal of its temporary file never fails, also when
\* two requests take the path from the same clock value.
OwnImageConverted ==
    AnsweredAfterConversion =>
        /\ resp.request.failure # "unlink"
        /\ resp.body.type = "text/plain" =>
              resp.body.data = <<"sixel of">> \o resp.request.imageBuffer

\* C33: once a request is over, with the sixel data or with any failure, an
\* error thrown during the conversion among them, the temporary file it
\* wrote for the conversion is no longer there.
TempFileRemoved ==
    (resp.to # 0 /\ resp.request.tempImagePath # <<>>) =>
        resp.request.tempImagePath \notin DOMAIN files

\* request r as it is in this state, answered or not
Now(r) == IF resp.to = r THEN resp.request ELSE req[r]

\* C34: the server removes no cache entry: an entry that exists exists in
\* every later state, the entry a request has written is there through the
\* rest of the request and at its answer, and a cache hit reads the bytes of
\* the entry it has found; it never fails with not-found.
EntriesNeverRemoved ==
    /\ [](\A r \in Requests :
            Now(r).wrote # <<>> => Now(r).wrote \in DOMAIN files)
    /\ [][\A r \in Requests :
            /\ (req[r].wrote # <<>> /\ req[r].wrote \in DOMAIN files)
                  => req[r].wrote \in DOMAIN files'
            /\ (req[r].pc = "directing" /\ After(r).cached # Undefined)
                  => \E path \in DOMAIN files : After(r).cached = Str(files[path])]_vars

\* the text is a directive: JSON, and an object
IsDirective(content) ==
    /\ content # Undefined
    /\ LET p == JSONparse(TemplateString(content))
       IN  p.ok /\ p.v.t = "object"

\* C35: nothing admits one request per key: every request that has its
\* directive and no cache hit calls the image backend itself, once, also
\* while another request is having the image of the same key drawn; k
\* requests that miss on one key make k calls.
EachMissGenerates ==
    \A r \in Requests :
        /\ Now(r).imageCalls <= 1
        /\ Now(r).cached # Undefined => Now(r).imageCalls = 0
        /\ (IsDirective(Now(r).filteredContent) /\ Now(r).cached = Undefined) =>
              /\ Now(r).imageCalls = 1
              /\ Now(r).prompt = Now(r).filteredContent

\* two requests of the key k1, repaint false, have both missed, and the
\* image backend is drawing for both at once
ConcurrentMisses ==
    /\ \A r \in {1, 2} :
          /\ req[r].pc = "generating"
          /\ DirectiveSays(req[r].filteredContent, False)
          /\ req[r].imageCalls = 1
    /\ req[1].filteredContent = req[2].filteredContent
    /\ req[1].gameIdentifier = req[2].gameIdentifier
    /\ files = NoFiles

\* a request to generate comes in with this step
GenerateComes(r) == req[r].pc = "idle" /\ req'[r].route = "generate"

\* C36: POST /generate is idempotent per (gameID, text): the location of the
\* image is a function of gameID and the hash of text alone, and a request
\* whose location holds an image is answered 'image already exists' with
\* the url of the image, calls no image backend and leaves the stored file,
\* and every other file, as it is.
GenerateIsIdempotent ==
    [][\A r \in Clients :
          GenerateComes(r) =>
            LET location == ImageEntry(req'[r].gameID, Sha512Hex(req'[r].text.s))
            IN  /\ req'[r].imagePath # <<>> => req'[r].imagePath = location
                /\ (/\ Present(req'[r].gameID)
                    /\ Present(req'[r].text)
                    /\ Present(apiKey)
                    /\ location \in DOMAIN files) =>
                      /\ resp'.to = r
                      /\ resp'.status = 200
                      /\ resp'.message = "image already exists"
                      /\ resp'.body = Str(PrintUrl(req'[r].gameID,
                                                   Sha512Hex(req'[r].text.s)))
                      /\ req'[r].imageCalls = 0
                      /\ files' = files
                      /\ dirs' = dirs
                      /\ \A q \in Clients \ {r} : req'[q] = req[q]]_vars

\* a request was answered 'image already exists' for the gameID and text of
\* an earlier request, whose image is in the file
AnsweredAlreadyExists ==
    /\ AnsweredNow("generate")
    /\ resp.message = "image already exists"
    /\ \E q \in Clients \ {resp.to} :
          /\ req[q].pc = "done"
          /\ req[q].answered = "image generated successfully"
          /\ req[q].gameID = resp.request.gameID
          /\ req[q].text = resp.request.text
          /\ req[q].imagePath \in DOMAIN files
          /\ files[req[q].imagePath] \in { ImageOf(1), ImageOf(2) }

====
